---- MODULE Spec2Model ----
(***************************************************************************)
(* Model of the motion interpreter of the simulated robot arm              *)
(* (src/gui_client/robot_3d_viewer.py, class Robot3DViewer): the G-code    *)
(* dispatch threads started by execute_gcode, the animation step of the    *)
(* viewer loop, and the calls the GUI makes on the viewer.                 *)
(*                                                                         *)
(* Numbers.  Coordinates are Python floats.  The model stores a coordinate *)
(* c as the integer c * Scale, and animation_progress p as the integer     *)
(* p * ProgressOne.  Every value the model computes is an integer multiple *)
(* of 1/Scale below 2^31, which binary floating point represents exactly,  *)
(* so the arithmetic below is the arithmetic the floats perform.           *)
(* Where rounding matters (a target such as 0.1), the animation update is  *)
(* modelled a second time on binary64 values, bit for bit (FloatSpec).     *)
(* The line parser GCodeCommand.from_line (src/models.py) is modelled as   *)
(* an operator and applied to every short text (ParseSpec).                *)
(* The solver _calculate_arm_angles is modelled with exact angles, on the  *)
(* positions whose solution is rational (SolveSpec).                       *)
(***************************************************************************)
EXTENDS Integers, Sequences, FiniteSets, TLC

VARIABLES
    running,             \* self.running: the viewer loop (tick driver) is alive
    motors_enabled,      \* self.motors_enabled
    effector_active,     \* self.effector_active
    robot_position,      \* self.robot_position (interpolated), scaled
    target_position,     \* self.target_position, scaled
    animation_progress,  \* self.animation_progress, in 1/ProgressOne
    is_executing_gcode,  \* self.is_executing_gcode
    gcode_queue,         \* self.gcode_queue: list of text lines
    current_position,    \* self.current_position (executor bookkeeping), scaled
    coordinate_mode,     \* self.coordinate_mode: "absolute" | "relative"
    thr,                 \* the dispatch threads, by number of submission
    cancelled,           \* history: threads whose program got a stop request
    halted,              \* history: threads that saw the motors switched off
    lastOp               \* history: the call or step taken last

vars == <<running, motors_enabled, effector_active, robot_position,
          target_position, animation_progress, is_executing_gcode,
          gcode_queue, current_position, coordinate_mode, thr, cancelled,
          halted, lastOp>>

----------------------------------------------------------------------------
(* Bounds of the model *)

\* accepted execute_gcode calls in one run, each starting a dispatch thread
MaxSubmits == 2

\* most argument tokens of a command line built from tokens
MaxTokens == 3

\* longest text line handed to GCodeCommand.from_line
MaxLineLen == 5

\* fixed-point resolution of a coordinate: 1/Scale world units
Scale == 2

----------------------------------------------------------------------------
(* Configuration constants *)

LOWER_ARM_LENGTH == 120
UPPER_ARM_LENGTH == 120
EFFECTOR_LENGTH == 18

\* animation_progress = 1.0 ("movimiento completo"), in halves
ProgressOne == 2

\* a dispatch thread is named by the number of the submission that started it
Threads == 1..MaxSubmits

Pos(x, y, z) == <<x * Scale, y * Scale, z * Scale>>

home_position == Pos(0, LOWER_ARM_LENGTH + UPPER_ARM_LENGTH + EFFECTOR_LENGTH, 0)

----------------------------------------------------------------------------
(* Text: a line is a sequence of one-character strings *)

IsSpace(c) == c = " "

Upper(c) ==
    CASE c = "g" -> "G"
      [] c = "m" -> "M"
      [] c = "x" -> "X"
      [] c = "y" -> "Y"
      [] c = "z" -> "Z"
      [] c = "e" -> "E"
      [] OTHER -> c

\* str.upper() of a one-character string, as a sequence of characters:
\* the upper case of "ß" is the two characters "SS"
UpperChars(c) == IF c = "ß" THEN <<"S", "S">> ELSE <<Upper(c)>>

\* str.upper()
RECURSIVE UpperStr(_)
UpperStr(s) == IF s = <<>> THEN <<>> ELSE UpperChars(Head(s)) \o UpperStr(Tail(s))

RECURSIVE LStrip(_)
LStrip(s) == IF s # <<>> /\ IsSpace(Head(s)) THEN LStrip(Tail(s)) ELSE s

RECURSIVE RStrip(_)
RStrip(s) ==
    IF s # <<>> /\ IsSpace(s[Len(s)]) THEN RStrip(SubSeq(s, 1, Len(s) - 1)) ELSE s

\* str.strip()
Strip(s) == RStrip(LStrip(s))

\* the first whitespace-free run of s (s has no leading whitespace)
RECURSIVE FirstToken(_)
FirstToken(s) ==
    IF s = <<>> \/ IsSpace(Head(s)) THEN <<>>
    ELSE <<Head(s)>> \o FirstToken(Tail(s))

\* str.split(): the maximal whitespace-free runs, in order
RECURSIVE Split(_)
Split(s) ==
    LET t == LStrip(s) IN
    IF t = <<>> THEN <<>>
    ELSE LET w == FirstToken(t) IN
         <<w>> \o Split(SubSeq(t, Len(w) + 1, Len(t)))

Digits == {"0", "1", "2", "3", "4", "5", "6", "7", "8", "9"}

DigitVal(c) ==
    CASE c = "0" -> 0 [] c = "1" -> 1 [] c = "2" -> 2 [] c = "3" -> 3
      [] c = "4" -> 4 [] c = "5" -> 5 [] c = "6" -> 6 [] c = "7" -> 7
      [] c = "8" -> 8 [] c = "9" -> 9

RECURSIVE DecVal(_)
DecVal(s) == IF s = <<>> THEN 0 ELSE DecVal(SubSeq(s, 1, Len(s) - 1)) * 10 + DigitVal(s[Len(s)])

AllDigits(s) == s # <<>> /\ \A k \in 1..Len(s) : s[k] \in Digits

\* float(s) for the texts of the model's alphabet: an optional sign and
\* decimal digits; anything else raises ValueError (ok = FALSE).
\* The value is returned scaled.
ParseFloat(s) ==
    IF s # <<>> /\ Head(s) \in {"-", "+"}
    THEN IF AllDigits(Tail(s))
         THEN [ok |-> TRUE,
               val |-> (IF Head(s) = "-" THEN -1 ELSE 1) * DecVal(Tail(s)) * Scale]
         ELSE [ok |-> FALSE, val |-> 0]
    ELSE IF AllDigits(s)
         THEN [ok |-> TRUE, val |-> DecVal(s) * Scale]
         ELSE [ok |-> FALSE, val |-> 0]

NoParams == [k \in {} |-> 0]

\* params[letter] = value: a later token with the same letter overwrites
RECURSIVE ExecParams(_)
ExecParams(parts) ==
    IF parts = <<>> THEN NoParams
    ELSE LET part == parts[Len(parts)]
             rest == ExecParams(SubSeq(parts, 1, Len(parts) - 1))
             f == ParseFloat(Tail(part))
         IN IF Len(part) >= 2 /\ f.ok
            THEN [k \in DOMAIN rest \cup {part[1]} |->
                     IF k = part[1] THEN f.val ELSE rest[k]]
            ELSE rest

\* the parsing _execute_gcode_command does on its (stripped) line
ExecParse(command) ==
    LET parts == Split(UpperStr(command)) IN
    IF command = <<>> \/ Head(command) = ";" \/ parts = <<>>
    THEN [skip |-> TRUE, main |-> <<>>, params |-> NoParams]
    ELSE [skip |-> FALSE, main |-> parts[1], params |-> ExecParams(Tail(parts))]

----------------------------------------------------------------------------
(* GCodeCommand.from_line (src/models.py) *)

\* the place of the first ";" of s, 0 when there is none
RECURSIVE FirstSemi(_)
FirstSemi(s) ==
    IF s = <<>> THEN 0
    ELSE IF Head(s) = ";" THEN 1
    ELSE LET k == FirstSemi(Tail(s)) IN IF k = 0 THEN 0 ELSE k + 1

\* a bug: the first token with a key keeps its value
RECURSIVE LineArgs_FirstWins(_)
LineArgs_FirstWins(parts) ==
    IF parts = <<>> THEN NoParams
    ELSE LET token == parts[1]
             rest == LineArgs_FirstWins(Tail(parts))
             key == UpperChars(token[1])
             f == ParseFloat(Tail(token))
         IN IF f.ok
            THEN [k \in DOMAIN rest \cup {key} |->
                     IF k = key THEN f.val ELSE rest[k]]
            ELSE rest

\* args[key] = float(val) for each token after the first, the key being
\* token[0].upper() (a string, here a sequence of characters); a token whose
\* remainder is no number is dropped, a later token overwrites an earlier one
RECURSIVE LineArgs(_)
LineArgs(parts) ==
    IF parts = <<>> THEN NoParams
    ELSE LET token == parts[Len(parts)]
             rest == LineArgs(SubSeq(parts, 1, Len(parts) - 1))
             key == UpperChars(token[1])
             f == ParseFloat(Tail(token))
         IN IF f.ok
            THEN [k \in DOMAIN rest \cup {key} |->
                     IF k = key THEN f.val ELSE rest[k]]
            ELSE rest

\* "return None"
NoCommand ==
    [none |-> TRUE, raises |-> FALSE, code |-> <<>>, args |-> NoParams,
     comment |-> <<>>]

\* from "parts = raw.split()" on: parts[0] raises IndexError on an empty list
CommandOf(raw, comment) ==
    LET parts == Split(raw) IN
    IF parts = <<>>
    THEN [none |-> FALSE, raises |-> TRUE, code |-> <<>>, args |-> NoParams,
          comment |-> comment]
    ELSE [none |-> FALSE, raises |-> FALSE, code |-> UpperStr(parts[1]),
          args |-> LineArgs(Tail(parts)), comment |-> comment]

\* a bug: from_line without the second emptiness check
FromLine_NoSecondCheck(line) ==
    LET raw == Strip(line)
        k == FirstSemi(raw)
    IN IF raw = <<>> THEN NoCommand
       ELSE IF k = 0 THEN CommandOf(raw, <<>>)
       ELSE CommandOf(Strip(SubSeq(raw, 1, k - 1)),
                      Strip(SubSeq(raw, k + 1, Len(raw))))

\* a bug: from_line that leaves the comment in the text it splits
FromLine_CommentKept(line) ==
    LET raw == Strip(line) IN
    IF raw = <<>> \/ Head(raw) = ";" THEN NoCommand ELSE CommandOf(raw, <<>>)

\* GCodeCommand.from_line(line)
FromLine(line) ==
    LET raw == Strip(line)
        k == FirstSemi(raw)
        cut == IF k = 0 THEN raw ELSE Strip(SubSeq(raw, 1, k - 1))
        comment == IF k = 0 THEN <<>> ELSE Strip(SubSeq(raw, k + 1, Len(raw)))
    IN IF raw = <<>> THEN NoCommand
       ELSE IF cut = <<>> THEN NoCommand
       ELSE CommandOf(cut, comment)

\* the characters of the text lines handed to from_line
LineChars == {" ", ";", "g", "x", "1", "-"}

RECURSIVE TextsOfLen(_)
TextsOfLen(n) ==
    IF n = 0 THEN {<<>>}
    ELSE {Append(s, c) : s \in TextsOfLen(n - 1), c \in LineChars}

\* every text of at most MaxLineLen characters
TextLines == UNION {TextsOfLen(n) : n \in 0..MaxLineLen}

\* first tokens of the command lines built from tokens: "g1", "M3"
CodeTokens == {<<"g", "1">>, <<"M", "3">>}

\* argument tokens: "x1", "X-1", "xg", "x", "y11", "ß1", "11"
ArgTokens ==
    { <<"x", "1">>, <<"X", "-", "1">>, <<"x", "g">>, <<"x">>,
      <<"y", "1", "1">>, <<"ß", "1">>, <<"1", "1">> }

RECURSIVE LinesOfTokens(_)
LinesOfTokens(n) ==
    IF n = 0 THEN CodeTokens
    ELSE {s \o <<" ">> \o token : s \in LinesOfTokens(n - 1), token \in ArgTokens}

\* a code and at most MaxTokens argument tokens, one space between them
TokenLines == UNION {LinesOfTokens(n) : n \in 0..MaxTokens}

----------------------------------------------------------------------------
(* generate_gcode (src/cli.py) *)

DigitChar(d) ==
    CASE d = 0 -> "0" [] d = 1 -> "1" [] d = 2 -> "2" [] d = 3 -> "3"
      [] d = 4 -> "4" [] d = 5 -> "5" [] d = 6 -> "6" [] d = 7 -> "7"
      [] d = 8 -> "8" [] d = 9 -> "9"

\* the decimal digits of a natural number
RECURSIVE NatText(_)
NatText(n) ==
    IF n < 10 THEN <<DigitChar(n)>>
    ELSE Append(NatText(n \div 10), DigitChar(n % 10))

RECURSIVE Pow10(_)
Pow10(p) == IF p = 0 THEN 1 ELSE 10 * Pow10(p - 1)

\* n as p digits, zeros in front
RECURSIVE PadText(_, _)
PadText(n, p) ==
    IF p = 0 THEN <<>> ELSE Append(PadText(n \div 10, p - 1), DigitChar(n % 10))

\* fixed-point notation of the scaled value v with p >= 1 decimals, the
\* last one rounded half to even
FixedText(v, p) ==
    LET n == IF v < 0 THEN -v ELSE v
        num == (n % Scale) * Pow10(p)
        q == num \div Scale
        r == num % Scale
        up == 2 * r > Scale \/ (2 * r = Scale /\ q % 2 = 1)
        frac == IF up THEN q + 1 ELSE q
        whole == n \div Scale + (IF frac = Pow10(p) THEN 1 ELSE 0)
    IN (IF v < 0 THEN <<"-">> ELSE <<>>)
       \o NatText(whole) \o <<".">> \o PadText(frac % Pow10(p), p)

\* format(v, spec) for a format specifier that begins with a precision:
\* ".<digit>f" is fixed-point notation; anything after the type character
\* makes the specifier invalid and format raises ValueError
Format(v, spec) ==
    IF Len(spec) = 3 /\ spec[1] = "." /\ spec[2] \in Digits /\ spec[3] = "f"
    THEN [raises |-> FALSE, text |-> FixedText(v, DigitVal(spec[2]))]
    ELSE [raises |-> TRUE, text |-> <<>>]

\* the format specifiers of the f-string of generate_gcode: in
\* "{ x:.3f }" everything between the colon and the closing brace, the
\* blank included, is the specifier
SpecXYZ == <<".", "3", "f", " ">>
SpecE == <<".", "1", "f", " ">>

\* generate_gcode(x, y, z, speed)
GenerateGcode(x, y, z, speed) ==
    LET fx == Format(x, SpecXYZ)
        fy == Format(y, SpecXYZ)
        fz == Format(z, SpecXYZ)
        fe == Format(speed, SpecE)
    IN IF fx.raises \/ fy.raises \/ fz.raises \/ fe.raises
       THEN [raises |-> TRUE, text |-> <<>>]
       ELSE [raises |-> FALSE,
             text |-> <<"G", "1", " ", "X">> \o fx.text \o <<" ", "Y">> \o fy.text
                      \o <<" ", "Z">> \o fz.text \o <<" ", "E">> \o fe.text]

\* the coordinate and speed values of the commands that are serialised
RoundValues == {-3 * Scale, 0, 1, 5 * Scale}

\* the G1 commands with X, Y, Z and E
RoundCommands ==
    {[code |-> <<"G", "1">>,
      args |-> [k \in {<<"X">>, <<"Y">>, <<"Z">>, <<"E">>} |->
                   IF k = <<"X">> THEN x ELSE IF k = <<"Y">> THEN y
                   ELSE IF k = <<"Z">> THEN z ELSE speed]] :
        x \in RoundValues, y \in RoundValues, z \in RoundValues,
        speed \in RoundValues}

----------------------------------------------------------------------------
(* The programs and targets the environment supplies *)

\* the command vocabulary
L_G90 == <<"G", "9", "0">>
L_G91 == <<"G", "9", "1">>
L_G0 == <<"G", "0">>
L_G1 == <<"G", "1">>
L_M3 == <<"M", "3">>
L_M5 == <<"M", "5">>
L_G24 == <<"G", "2", "4">>

\* "G1 X2"
L_G1_X2 == <<"G", "1", " ", "X", "2">>

\* the programs submitted with execute_gcode
Programs == {<<L_M3, L_G91, L_G1_X2>>}

\* "G1 X1 Y2 Z3"
L_G1_X1Y2Z3 == <<"G", "1", " ", "X", "1", " ", "Y", "2", " ", "Z", "3">>

\* movement lines: one key, no key, all keys and an E, a lower-case line with
\* a negative value and a token that is no number, a key given twice
MoveLines ==
    { L_G1_X2,
      L_G1,
      <<"G", "0", " ", "X", "4", " ", "Y", "5", " ", "Z", "6", " ", "E", "7">>,
      <<" ", "g", "0", " ", "y", "-", "1", " ", "Z", "q">>,
      <<"G", "1", " ", "Z", "7", " ", "Z", "+", "1", "0">> }

\* the programs of the movement check: to (1,2,3), a mode, one movement line
MovePrograms ==
    {<<L_G1_X1Y2Z3, mode, line>> : mode \in {L_G90, L_G91}, line \in MoveLines}

\* "G1 X5 Y8 Z5"
L_G1_X5Y8Z5 == <<"G", "1", " ", "X", "5", " ", "Y", "8", " ", "Z", "5">>

\* "G1 X-3"
L_G1_Xm3 == <<"G", "1", " ", "X", "-", "3">>

\* the pick-and-place program: to (5,8,5), effector on, 3 back along X,
\* effector off, home
E2EProgram == <<L_G90, L_G1_X5Y8Z5, L_M3, L_G91, L_G1_Xm3, L_M5, L_G24>>

\* "T1 X9": a code the interpreter does not know
L_T1_X9 == <<"T", "1", " ", "X", "9">>

\* "g24 x5": home, in lower case and with an argument
L_g24_x5 == <<"g", "2", "4", " ", "x", "5">>

\* a program with an unknown code and a G24 in relative mode
OddProgram == <<L_M3, L_G91, L_T1_X9, L_g24_x5, L_M5>>

\* a move and a G24 in absolute mode
HomeProgram == <<L_G1_X5Y8Z5, L_G24>>

\* "G0 X4 Y5 Z6 E7"
L_G0_X4Y5Z6E7 ==
    <<"G", "0", " ", "X", "4", " ", "Y", "5", " ", "Z", "6", " ", "E", "7">>

\* a rapid move in absolute mode
RapidProgram == <<L_G90, L_G0_X4Y5Z6E7>>

\* the programs run one after the other without interference
RunPrograms == {E2EProgram, OddProgram, HomeProgram}

\* every line of every program
Lines ==
    UNION {{prog[k] : k \in 1..Len(prog)} :
              prog \in Programs \cup MovePrograms \cup RunPrograms}

\* _execute_gcode_command's reading of each line, worked out once
Parsed == [line \in Lines |-> ExecParse(Strip(line))]

\* the targets of update_position calls from outside the executor
ExtTargets == {Pos(1, 2, 3)}

----------------------------------------------------------------------------
(* State after Robot3DViewer.__init__ *)

NoThread == [pc |-> "none", prog |-> <<>>, i |-> 0, log |-> <<>>]
Ended == [pc |-> "done", prog |-> <<>>, i |-> 0, log |-> <<>>]

Init ==
    /\ running = FALSE
    /\ motors_enabled = FALSE
    /\ effector_active = FALSE
    /\ robot_position = home_position
    /\ target_position = home_position
    /\ animation_progress = ProgressOne
    /\ is_executing_gcode = FALSE
    /\ gcode_queue = <<>>
    /\ current_position = home_position
    /\ coordinate_mode = "absolute"
    /\ thr = [t \in Threads |-> NoThread]
    /\ cancelled = {}
    /\ halted = {}
    /\ lastOp = "init"

----------------------------------------------------------------------------
(* Calls made on the viewer from outside *)

\* start(): the viewer loop begins
StartViewer ==
    /\ ~running
    /\ running' = TRUE
    /\ lastOp' = "start"
    /\ UNCHANGED <<motors_enabled, effector_active, robot_position,
                   target_position, animation_progress, is_executing_gcode,
                   gcode_queue, current_position, coordinate_mode, thr, cancelled, halted>>

\* stop(): the viewer loop ends and is joined
StopViewer ==
    /\ running
    /\ running' = FALSE
    /\ lastOp' = "stop"
    /\ UNCHANGED <<motors_enabled, effector_active, robot_position,
                   target_position, animation_progress, is_executing_gcode,
                   gcode_queue, current_position, coordinate_mode, thr, cancelled, halted>>

\* a bug: update_position that snaps whatever animate says
UpdatePositionResult_AlwaysSnap(p, animate) ==
    IF ~motors_enabled
    THEN [ok |-> FALSE, target |-> target_position, robot |-> robot_position,
          progress |-> animation_progress]
    ELSE [ok |-> TRUE, target |-> p, robot |-> p, progress |-> ProgressOne]

\* a bug: update_position without its motors check
UpdatePositionResult_NoMotorsCheck(p, animate) ==
    IF animate
    THEN [ok |-> TRUE, target |-> p, robot |-> robot_position, progress |-> 0]
    ELSE [ok |-> TRUE, target |-> p, robot |-> p, progress |-> ProgressOne]

\* update_position(x, y, z, animate): the values it leaves in
\* target_position, robot_position, animation_progress
UpdatePositionResult(p, animate) ==
    IF ~motors_enabled
    THEN [ok |-> FALSE, target |-> target_position, robot |-> robot_position,
          progress |-> animation_progress]
    ELSE IF animate
         THEN [ok |-> TRUE, target |-> p, robot |-> robot_position,
               progress |-> 0]
         ELSE [ok |-> TRUE, target |-> p, robot |-> p,
               progress |-> ProgressOne]

\* update_position called by the GUI (or any other caller)
UpdatePosition(p, animate) ==
    LET r == UpdatePositionResult(p, animate) IN
    /\ target_position' = r.target
    /\ robot_position' = r.robot
    /\ animation_progress' = r.progress
    /\ lastOp' = "update_position"
    /\ UNCHANGED <<running, motors_enabled, effector_active,
                   is_executing_gcode, gcode_queue, current_position,
                   coordinate_mode, thr, cancelled, halted>>

\* thread t is alive: started and not yet ended
Alive(t) == thr[t].pc \notin {"none", "done"}

\* accepted submissions so far
Submits == Cardinality({t \in Threads : thr[t].pc # "none"})

\* an optional argument: <<>> is None, <<v>> is the value v
OptBool == {<<>>, <<TRUE>>, <<FALSE>>}

\* set_robot_state(motors_enabled=None, effector_active=None)
SetRobotState(m, e) ==
    /\ motors_enabled' = IF m # <<>> THEN m[1] ELSE motors_enabled
    /\ effector_active' = IF e # <<>> THEN e[1] ELSE effector_active
    /\ halted' = IF motors_enabled /\ m = <<FALSE>>
                 THEN halted \cup {t \in Threads : Alive(t)}
                 ELSE halted
    /\ lastOp' = "set_robot_state"
    /\ UNCHANGED <<running, robot_position, target_position,
                   animation_progress, is_executing_gcode, gcode_queue,
                   current_position, coordinate_mode, thr, cancelled>>

\* home_robot(): with the motors off it returns; the call of
\* update_position is indented under that return, so no path reaches it
HomeRobot ==
    /\ lastOp' = "home_robot"
    /\ UNCHANGED <<running, motors_enabled, effector_active, robot_position,
                   target_position, animation_progress, is_executing_gcode,
                   gcode_queue, current_position, coordinate_mode, thr,
                   cancelled, halted>>

\* execute_gcode past its motors check: the queue, the flag, the mode and
\* the new thread
AcceptGcode(cmds) ==
    /\ Submits < MaxSubmits
    /\ gcode_queue' = cmds
    /\ is_executing_gcode' = TRUE
    /\ coordinate_mode' = "absolute"
    /\ thr' = [thr EXCEPT ![Submits + 1] =
                   [pc |-> "start", prog |-> <<>>, i |-> 0, log |-> <<>>]]
    /\ lastOp' = "execute_gcode"
    /\ UNCHANGED <<running, motors_enabled, effector_active, robot_position,
                   target_position, animation_progress, current_position,
                   cancelled, halted>>

\* a bug: execute_gcode without its motors check
ExecuteGcode_NoMotorsCheck(cmds) == AcceptGcode(cmds)

\* execute_gcode(gcode_commands)
ExecuteGcode(cmds) ==
    IF ~motors_enabled
    THEN /\ lastOp' = "execute_gcode"
         /\ UNCHANGED <<running, motors_enabled, effector_active,
                        robot_position, target_position, animation_progress,
                        is_executing_gcode, gcode_queue, current_position,
                        coordinate_mode, thr, cancelled, halted>>
    ELSE AcceptGcode(cmds)

\* stop_gcode_execution()
StopGcodeExecution ==
    /\ is_executing_gcode' = FALSE
    /\ cancelled' = cancelled \cup {t \in Threads : Alive(t)}
    /\ lastOp' = "stop_gcode_execution"
    /\ UNCHANGED <<running, motors_enabled, effector_active, robot_position,
                   target_position, animation_progress, gcode_queue,
                   current_position, coordinate_mode, thr, halted>>

----------------------------------------------------------------------------
(* The dispatch thread: _execute_gcode_sequence *)

Get(params, k) == IF k \in DOMAIN params THEN <<params[k]>> ELSE <<>>

\* a bug: relative mode takes a supplied value as it stands
MovementTarget_RelativeAsAbsolute(params) ==
    LET x == Get(params, "X")
        y == Get(params, "Y")
        z == Get(params, "Z")
    IN << IF x # <<>> THEN x[1] ELSE current_position[1],
          IF y # <<>> THEN y[1] ELSE current_position[2],
          IF z # <<>> THEN z[1] ELSE current_position[3] >>

\* _execute_movement: the target a G0/G1 resolves to
MovementTarget(params) ==
    LET x == Get(params, "X")
        y == Get(params, "Y")
        z == Get(params, "Z")
    IN IF coordinate_mode = "absolute"
       THEN << IF x # <<>> THEN x[1] ELSE current_position[1],
               IF y # <<>> THEN y[1] ELSE current_position[2],
               IF z # <<>> THEN z[1] ELSE current_position[3] >>
       ELSE << current_position[1] + (IF x # <<>> THEN x[1] ELSE 0),
               current_position[2] + (IF y # <<>> THEN y[1] ELSE 0),
               current_position[3] + (IF z # <<>> THEN z[1] ELSE 0) >>

\* the loop's iterator is created over the list self.gcode_queue holds now
SeqStart(t) ==
    /\ thr[t].pc = "start"
    /\ thr' = [thr EXCEPT ![t] = [pc |-> "check", prog |-> gcode_queue,
                                  i |-> 1, log |-> <<>>]]
    /\ lastOp' = "seq_start"
    /\ UNCHANGED <<running, motors_enabled, effector_active, robot_position,
                   target_position, animation_progress, is_executing_gcode,
                   gcode_queue, current_position, coordinate_mode, cancelled, halted>>

\* the head of an iteration: the next command, then the two flags
SeqCheck(t) ==
    /\ thr[t].pc = "check"
    /\ IF thr[t].i > Len(thr[t].prog)
       THEN thr' = [thr EXCEPT ![t].pc = "exit"]
       ELSE IF ~is_executing_gcode \/ ~motors_enabled
            THEN thr' = [thr EXCEPT ![t].pc = "exit"]
            ELSE thr' = [thr EXCEPT ![t].pc = "dispatch"]
    /\ lastOp' = "seq_check"
    /\ UNCHANGED <<running, motors_enabled, effector_active, robot_position,
                   target_position, animation_progress, is_executing_gcode,
                   gcode_queue, current_position, coordinate_mode, cancelled, halted>>

\* a bug: the movement leaves current_position as it was
MoveToPosition_NoBookkeeping(t, p) ==
    LET r == UpdatePositionResult(p, TRUE) IN
    /\ target_position' = r.target
    /\ robot_position' = r.robot
    /\ animation_progress' = r.progress
    /\ thr' = [thr EXCEPT ![t].pc = "wait",
                          ![t].log = Append(@, thr[t].prog[thr[t].i])]
    /\ UNCHANGED <<effector_active, coordinate_mode, current_position>>

\* _move_to_position up to its wait: update_position(animate=True), then
\* current_position
MoveToPosition(t, p) ==
    LET r == UpdatePositionResult(p, TRUE) IN
    /\ target_position' = r.target
    /\ robot_position' = r.robot
    /\ animation_progress' = r.progress
    /\ current_position' = p
    /\ thr' = [thr EXCEPT ![t].pc = "wait",
                          ![t].log = Append(@, thr[t].prog[thr[t].i])]
    /\ UNCHANGED <<effector_active, coordinate_mode>>

\* a bug: switching the effector puts the coordinate mode back to absolute
Instant_ModeReset(t, mode, eff) ==
    /\ coordinate_mode' = IF eff # effector_active THEN "absolute" ELSE mode
    /\ effector_active' = eff
    /\ thr' = [thr EXCEPT ![t].pc = "check", ![t].i = @ + 1,
                          ![t].log = Append(@, thr[t].prog[thr[t].i])]
    /\ UNCHANGED <<robot_position, target_position, animation_progress,
                   current_position>>

\* a command that is not a movement: its effect, then the pause between
\* commands, which leads to the head of the next iteration
Instant(t, mode, eff) ==
    /\ coordinate_mode' = mode
    /\ effector_active' = eff
    /\ thr' = [thr EXCEPT ![t].pc = "check", ![t].i = @ + 1,
                          ![t].log = Append(@, thr[t].prog[thr[t].i])]
    /\ UNCHANGED <<robot_position, target_position, animation_progress,
                   current_position>>

\* a bug: an unknown code ends the program
Unrecognised_Abort(t) ==
    /\ thr' = [thr EXCEPT ![t].pc = "exit",
                          ![t].log = Append(@, thr[t].prog[thr[t].i])]
    /\ UNCHANGED <<coordinate_mode, effector_active, robot_position,
                   target_position, animation_progress, current_position>>

\* "Comando no reconocido": a message, no effect
Unrecognised(t) == Instant(t, coordinate_mode, effector_active)

\* a bug: G24 resolved like a G0/G1, from its arguments and the mode
HomeCommand_AsMovement(t) ==
    MoveToPosition(t, MovementTarget(Parsed[thr[t].prog[thr[t].i]].params))

\* G24: _move_to_position(*self.home_position)
HomeCommand(t) == MoveToPosition(t, home_position)

\* _execute_gcode_command(command.strip())
SeqDispatch(t) ==
    /\ thr[t].pc = "dispatch"
    /\ LET c == Parsed[thr[t].prog[thr[t].i]] IN
       IF c.skip
       THEN Instant(t, coordinate_mode, effector_active)
       ELSE IF c.main = L_G90
       THEN Instant(t, "absolute", effector_active)
       ELSE IF c.main = L_G91
       THEN Instant(t, "relative", effector_active)
       ELSE IF c.main \in {L_G0, L_G1}
       THEN MoveToPosition(t, MovementTarget(c.params))
       ELSE IF c.main = L_M3
       THEN Instant(t, coordinate_mode, TRUE)
       ELSE IF c.main = L_M5
       THEN Instant(t, coordinate_mode, FALSE)
       ELSE IF c.main = L_G24
       THEN HomeCommand(t)
       ELSE Unrecognised(t)
    /\ lastOp' = "dispatch"
    /\ UNCHANGED <<running, motors_enabled, is_executing_gcode, gcode_queue, cancelled, halted>>

\* the condition that ends the wait of _move_to_position
WaitDone == animation_progress >= ProgressOne

\* a bug: the movement returns without waiting for the animation
SeqWait_NoBlock(t) ==
    /\ thr[t].pc = "wait"
    /\ thr' = [thr EXCEPT ![t].pc = "check", ![t].i = @ + 1]
    /\ lastOp' = "wait_done"
    /\ UNCHANGED <<running, motors_enabled, effector_active, robot_position,
                   target_position, animation_progress, is_executing_gcode,
                   gcode_queue, current_position, coordinate_mode, cancelled, halted>>

\* the wait is over; the pause between commands leads to the next iteration
SeqWait(t) ==
    /\ thr[t].pc = "wait"
    /\ WaitDone
    /\ thr' = [thr EXCEPT ![t].pc = "check", ![t].i = @ + 1]
    /\ lastOp' = "wait_done"
    /\ UNCHANGED <<running, motors_enabled, effector_active, robot_position,
                   target_position, animation_progress, is_executing_gcode,
                   gcode_queue, current_position, coordinate_mode, cancelled, halted>>

\* after the loop: is_executing_gcode = False, and the thread ends
SeqExit(t) ==
    /\ thr[t].pc = "exit"
    /\ is_executing_gcode' = FALSE
    /\ thr' = [thr EXCEPT ![t] = Ended]
    /\ cancelled' = cancelled \ {t}
    /\ halted' = halted \ {t}
    /\ lastOp' = "seq_exit"
    /\ UNCHANGED <<running, motors_enabled, effector_active, robot_position,
                   target_position, animation_progress, gcode_queue,
                   current_position, coordinate_mode>>

SeqStep(t) ==
    SeqStart(t) \/ SeqCheck(t) \/ SeqDispatch(t) \/ SeqWait(t) \/ SeqExit(t)

----------------------------------------------------------------------------
(* The viewer loop: one frame's animation update *)

Min(a, b) == IF a <= b THEN a ELSE b

\* _smooth_step(p / ProgressOne) = SmoothNum(p) / SmoothDen
SmoothNum(p) == p * p * (3 * ProgressOne - 2 * p)
SmoothDen == ProgressOne * ProgressOne * ProgressOne

\* _lerp(a, b, _smooth_step(p / ProgressOne))
Lerp(a, b, p) == a + ((b - a) * SmoothNum(p)) \div SmoothDen

\* the frame lengths whose interpolation the fixed point holds exactly
ExactDt(dt) ==
    LET p == Min(ProgressOne, animation_progress + dt) IN
    \A k \in 1..3 :
        ((target_position[k] - robot_position[k]) * SmoothNum(p)) % SmoothDen = 0

\* a bug: a frame that never advances the animation
Tick_Frozen(dt) ==
    /\ running
    /\ lastOp' = "tick"
    /\ UNCHANGED <<running, motors_enabled, effector_active, robot_position,
                   target_position, animation_progress, is_executing_gcode,
                   gcode_queue, current_position, coordinate_mode, thr,
                   cancelled, halted>>

\* a bug: a frame that adds dt to the progress without the clamp at 1.0
Tick_NoClamp(dt) ==
    /\ running
    /\ IF animation_progress < ProgressOne
       THEN /\ animation_progress' = animation_progress + dt
            /\ robot_position' = target_position
       ELSE UNCHANGED <<animation_progress, robot_position>>
    /\ lastOp' = "tick"
    /\ UNCHANGED <<running, motors_enabled, effector_active, target_position,
                   is_executing_gcode, gcode_queue, current_position,
                   coordinate_mode, thr, cancelled, halted>>

\* "Actualizar animacion" for a frame of length dt / ProgressOne seconds
\* (animation_speed is 1.0)
Tick(dt) ==
    /\ running
    /\ ExactDt(dt)
    /\ IF animation_progress < ProgressOne
       THEN LET p == Min(ProgressOne, animation_progress + dt) IN
            /\ animation_progress' = p
            /\ robot_position' =
                   [k \in 1..3 |-> Lerp(robot_position[k], target_position[k], p)]
       ELSE UNCHANGED <<animation_progress, robot_position>>
    /\ lastOp' = "tick"
    /\ UNCHANGED <<running, motors_enabled, effector_active, target_position,
                   is_executing_gcode, gcode_queue, current_position,
                   coordinate_mode, thr, cancelled, halted>>

----------------------------------------------------------------------------
(* The animation update in binary floating point.                          *)
(*                                                                         *)
(* A Python float is an IEEE 754 binary64 number.  Here a finite float is  *)
(* a record [neg, man, exp] of value (-1)^neg * man * 2^exp, man being a   *)
(* sequence of bits, lowest first, that is empty for zero and otherwise    *)
(* begins and ends with 1 and has at most MantissaBits bits.  The values   *)
(* stay far from the overflow and underflow thresholds, so the exponent is *)
(* not limited, and -0.0 (equal to 0.0 in Python) is held as 0.0.          *)

\* significand width of binary64
MantissaBits == 53

FZero == [neg |-> FALSE, man |-> <<>>, exp |-> 0]

Zeros(n) == [k \in 1..n |-> 0]

\* drop the zero bits at the high end
RECURSIVE StripTop(_)
StripTop(b) ==
    IF b # <<>> /\ b[Len(b)] = 0 THEN StripTop(SubSeq(b, 1, Len(b) - 1)) ELSE b

\* a + b + c on bit sequences
RECURSIVE BitsAdd(_, _, _)
BitsAdd(a, b, c) ==
    IF a = <<>> /\ b = <<>>
    THEN IF c = 1 THEN <<1>> ELSE <<>>
    ELSE LET x == IF a = <<>> THEN 0 ELSE Head(a)
             y == IF b = <<>> THEN 0 ELSE Head(b)
             sum == x + y + c
         IN <<sum % 2>> \o BitsAdd(IF a = <<>> THEN <<>> ELSE Tail(a),
                                   IF b = <<>> THEN <<>> ELSE Tail(b),
                                   sum \div 2)

\* a - b - c on bit sequences, for a >= b + c
RECURSIVE BitsSub(_, _, _)
BitsSub(a, b, c) ==
    IF a = <<>> THEN <<>>
    ELSE LET y == IF b = <<>> THEN 0 ELSE Head(b)
             d == Head(a) - y - c
         IN <<IF d < 0 THEN d + 2 ELSE d>>
            \o BitsSub(Tail(a), IF b = <<>> THEN <<>> ELSE Tail(b),
                       IF d < 0 THEN 1 ELSE 0)

\* a < b, for bit sequences that end with 1
BitsLess(a, b) ==
    \/ Len(a) < Len(b)
    \/ /\ Len(a) = Len(b)
       /\ \E k \in 1..Len(a) :
              /\ a[k] < b[k]
              /\ \A j \in (k + 1)..Len(a) : a[j] = b[j]

\* the record of man * 2^exp, man ending with 1: zero bits at the low end
\* go into the exponent
RECURSIVE Canon(_, _, _)
Canon(neg, man, exp) ==
    IF Head(man) = 0 THEN Canon(neg, Tail(man), exp + 1)
    ELSE [neg |-> neg, man |-> man, exp |-> exp]

\* the float nearest to (-1)^neg * bits * 2^exp, ties to even
FloatOf(neg, bits, exp) ==
    LET b == StripTop(bits)
        d == Len(b) - MantissaBits
    IN IF b = <<>> THEN FZero
       ELSE IF d <= 0 THEN Canon(neg, b, exp)
       ELSE LET kept == SubSeq(b, d + 1, Len(b))
                up == /\ b[d] = 1
                      /\ \/ \E j \in 1..(d - 1) : b[j] = 1
                         \/ kept[1] = 1
            IN Canon(neg, IF up THEN BitsAdd(kept, <<>>, 1) ELSE kept, exp + d)

\* x + y
FAdd(x, y) ==
    IF x.man = <<>> THEN y
    ELSE IF y.man = <<>> THEN x
    ELSE LET e == IF x.exp <= y.exp THEN x.exp ELSE y.exp
             a == Zeros(x.exp - e) \o x.man
             b == Zeros(y.exp - e) \o y.man
         IN IF x.neg = y.neg THEN FloatOf(x.neg, BitsAdd(a, b, 0), e)
            ELSE IF a = b THEN FZero
            ELSE IF BitsLess(a, b) THEN FloatOf(y.neg, BitsSub(b, a, 0), e)
            ELSE FloatOf(x.neg, BitsSub(a, b, 0), e)

\* x - y
FSub(x, y) == FAdd(x, IF y.man = <<>> THEN y ELSE [y EXCEPT !.neg = ~@])

\* x * _smooth_step(p / ProgressOne) for p = ProgressOne / 2 and
\* p = ProgressOne: t * t * (3.0 - 2.0 * t) is 0.5 at 0.5 and 1.0 at 1.0, all
\* of it exact, and so are the products by 0.5 and 1.0
FTimesSmooth(x, p) ==
    IF p = ProgressOne \/ x.man = <<>> THEN x ELSE [x EXCEPT !.exp = @ - 1]

\* _lerp(a, b, _smooth_step(p / ProgressOne)) = a + (b - a) * t
FLerp(a, b, p) == FAdd(a, FTimesSmooth(FSub(b, a), p))

\* the bits of a natural number
RECURSIVE NatBits(_)
NatBits(n) == IF n = 0 THEN <<>> ELSE <<n % 2>> \o NatBits(n \div 2)

\* float(n) for an integer n
FInt(n) == FloatOf(n < 0, NatBits(IF n < 0 THEN -n ELSE n), 0)

\* 0.1: 0x1.999999999999ap-4 = 0xCCCCCCCCCCCCD * 2^-55
FTenth ==
    [neg |-> FALSE,
     man |-> <<1, 0, 1, 1>> \o [k \in 1..48 |-> IF (k - 1) % 4 < 2 THEN 0 ELSE 1],
     exp |-> -55]

FPos(x, y, z) == <<x, y, z>>

\* self.home_position as floats
FHome ==
    FPos(FZero, FInt(LOWER_ARM_LENGTH + UPPER_ARM_LENGTH + EFFECTOR_LENGTH), FZero)

\* targets of update_position calls
FloatTargets ==
    { FPos(FInt(5), FInt(8), FInt(5)),
      FPos(FInt(-3), FInt(10), FInt(8)),
      FPos(FInt(1), FInt(2), FInt(3)),
      FPos(FTenth, FTenth, FTenth) }

\* "Actualizar animacion" on floats, for frames of 0.5 s and 1.0 s
FloatTick(dt) ==
    /\ running
    /\ IF animation_progress < ProgressOne
       THEN LET p == Min(ProgressOne, animation_progress + dt) IN
            /\ animation_progress' = p
            /\ robot_position' =
                   [k \in 1..3 |-> FLerp(robot_position[k], target_position[k], p)]
       ELSE UNCHANGED <<animation_progress, robot_position>>
    /\ lastOp' = "tick"
    /\ UNCHANGED <<running, motors_enabled, effector_active, target_position,
                   is_executing_gcode, gcode_queue, current_position,
                   coordinate_mode, thr, cancelled, halted>>

\* the viewer after __init__, positions as floats
FloatInit ==
    /\ running = FALSE
    /\ motors_enabled = FALSE
    /\ effector_active = FALSE
    /\ robot_position = FHome
    /\ target_position = FHome
    /\ animation_progress = ProgressOne
    /\ is_executing_gcode = FALSE
    /\ gcode_queue = <<>>
    /\ current_position = FHome
    /\ coordinate_mode = "absolute"
    /\ thr = [t \in Threads |-> NoThread]
    /\ cancelled = {}
    /\ halted = {}
    /\ lastOp = "init"

\* the animator on its own: a new target is given once the arm has come to
\* rest, and frames last 0.5 s or 1.0 s
FloatNext ==
    \/ StartViewer
    \/ ~motors_enabled /\ SetRobotState(<<TRUE>>, <<>>)
    \/ \E p \in FloatTargets, animate \in BOOLEAN :
           animation_progress = ProgressOne /\ UpdatePosition(p, animate)
    \/ \E dt \in 1..ProgressOne : FloatTick(dt)

FloatSpec == FloatInit /\ [][FloatNext]_vars

----------------------------------------------------------------------------

\* one frame of the viewer loop
TickStep == \E dt \in 1..ProgressOne : Tick(dt)

Next ==
    \/ StartViewer
    \/ StopViewer
    \/ \E p \in ExtTargets, animate \in BOOLEAN : UpdatePosition(p, animate)
    \/ \E m \in OptBool, e \in OptBool : SetRobotState(m, e)
    \/ HomeRobot
    \/ \E cmds \in Programs : ExecuteGcode(cmds)
    \/ StopGcodeExecution
    \/ \E t \in Threads : SeqStep(t)
    \/ TickStep

Spec == Init /\ [][Next]_vars

\* the steps of the liveness check: the calls from outside limited to the
\* ones that bear on how a program ends (the motors flag, an animated
\* retargeting, submissions, the stop request, the viewer's start and stop)
LiveNext ==
    \/ StartViewer
    \/ StopViewer
    \/ \E p \in ExtTargets : UpdatePosition(p, TRUE)
    \/ \E m \in {<<TRUE>>, <<FALSE>>} : SetRobotState(m, <<>>)
    \/ \E cmds \in Programs : ExecuteGcode(cmds)
    \/ StopGcodeExecution
    \/ \E t \in Threads : SeqStep(t)
    \/ TickStep

\* the steps of the movement check: programs are submitted one after the
\* other, and nothing but the motors flag is touched from outside
MoveNext ==
    \/ StartViewer
    \/ \E m \in {<<TRUE>>, <<FALSE>>} : SetRobotState(m, <<>>)
    \/ \E cmds \in MovePrograms :
           (\A t \in Threads : ~Alive(t)) /\ ExecuteGcode(cmds)
    \/ \E t \in Threads : SeqStep(t)
    \/ TickStep

MoveSpec == Init /\ [][MoveNext]_vars

\* the steps of an undisturbed run: the motors are switched on and stay on,
\* the viewer is started, programs are submitted one after the other
RunNext ==
    \/ StartViewer
    \/ ~motors_enabled /\ SetRobotState(<<TRUE>>, <<>>)
    \/ \E cmds \in RunPrograms :
           (\A t \in Threads : ~Alive(t)) /\ ExecuteGcode(cmds)
    \/ \E t \in Threads : SeqStep(t)
    \/ TickStep

RunSpec == Init /\ [][RunNext]_vars

\* the programs of the submissions that may overlap
QueuePrograms == {OddProgram, HomeProgram, RapidProgram}

\* the steps of overlapping submissions: the motors are switched on and
\* stay on, and execute_gcode is called whether a program is running or not
QueueNext ==
    \/ StartViewer
    \/ ~motors_enabled /\ SetRobotState(<<TRUE>>, <<>>)
    \/ \E cmds \in QueuePrograms : ExecuteGcode(cmds)
    \/ \E t \in Threads : SeqStep(t)
    \/ TickStep

QueueSpec == Init /\ [][QueueNext]_vars

\* from_line applied to the text line at hand: the call and what it returned
FromLineCall ==
    /\ lastOp.op = "line"
    /\ lastOp' = [op |-> "from_line", line |-> lastOp.line,
                  ret |-> FromLine(lastOp.line)]
    /\ UNCHANGED <<running, motors_enabled, effector_active, robot_position,
                   target_position, animation_progress, is_executing_gcode,
                   gcode_queue, current_position, coordinate_mode, thr,
                   cancelled, halted>>

ParseInit ==
    /\ running = FALSE
    /\ motors_enabled = FALSE
    /\ effector_active = FALSE
    /\ robot_position = home_position
    /\ target_position = home_position
    /\ animation_progress = ProgressOne
    /\ is_executing_gcode = FALSE
    /\ gcode_queue = <<>>
    /\ current_position = home_position
    /\ coordinate_mode = "absolute"
    /\ thr = [t \in Threads |-> NoThread]
    /\ cancelled = {}
    /\ halted = {}
    /\ lastOp \in {[op |-> "line", line |-> line, ret |-> NoCommand] :
                       line \in TextLines}

\* the interpreter's own parsing applied to the text line at hand, stripped
\* as _execute_gcode_sequence strips it
ExecParseCall ==
    /\ lastOp.op = "line"
    /\ lastOp' = [op |-> "exec_parse", line |-> lastOp.line,
                  ret |-> ExecParse(Strip(lastOp.line))]
    /\ UNCHANGED <<running, motors_enabled, effector_active, robot_position,
                   target_position, animation_progress, is_executing_gcode,
                   gcode_queue, current_position, coordinate_mode, thr,
                   cancelled, halted>>

ParseNext == FromLineCall \/ ExecParseCall

TokenInit ==
    /\ running = FALSE
    /\ motors_enabled = FALSE
    /\ effector_active = FALSE
    /\ robot_position = home_position
    /\ target_position = home_position
    /\ animation_progress = ProgressOne
    /\ is_executing_gcode = FALSE
    /\ gcode_queue = <<>>
    /\ current_position = home_position
    /\ coordinate_mode = "absolute"
    /\ thr = [t \in Threads |-> NoThread]
    /\ cancelled = {}
    /\ halted = {}
    /\ lastOp \in {[op |-> "line", line |-> line, ret |-> NoCommand] :
                       line \in TokenLines}

\* the two parsers applied to any command line built from tokens
TokenSpec == TokenInit /\ [][ParseNext]_vars

\* the parser on its own, applied to any text line
ParseSpec == ParseInit /\ [][ParseNext]_vars

\* a command serialised with generate_gcode and the text parsed with
\* from_line; an exception of the first is the outcome of the whole
RoundTripCall ==
    /\ lastOp.op = "command"
    /\ lastOp' =
           [op |-> "round_trip", cmd |-> lastOp.cmd,
            ret |-> LET a == lastOp.cmd.args
                        g == GenerateGcode(a[<<"X">>], a[<<"Y">>], a[<<"Z">>],
                                           a[<<"E">>])
                    IN IF g.raises
                       THEN [none |-> FALSE, raises |-> TRUE, code |-> <<>>,
                             args |-> NoParams, comment |-> <<>>]
                       ELSE FromLine(g.text)]
    /\ UNCHANGED <<running, motors_enabled, effector_active, robot_position,
                   target_position, animation_progress, is_executing_gcode,
                   gcode_queue, current_position, coordinate_mode, thr,
                   cancelled, halted>>

RoundInit ==
    /\ running = FALSE
    /\ motors_enabled = FALSE
    /\ effector_active = FALSE
    /\ robot_position = home_position
    /\ target_position = home_position
    /\ animation_progress = ProgressOne
    /\ is_executing_gcode = FALSE
    /\ gcode_queue = <<>>
    /\ current_position = home_position
    /\ coordinate_mode = "absolute"
    /\ thr = [t \in Threads |-> NoThread]
    /\ cancelled = {}
    /\ halted = {}
    /\ lastOp \in {[op |-> "command", cmd |-> cmd, ret |-> NoCommand] :
                       cmd \in RoundCommands}

RoundNext == RoundTripCall

\* serialising and parsing again, for any of the commands
RoundSpec == RoundInit /\ [][RoundNext]_vars

----------------------------------------------------------------------------
(* _calculate_arm_angles *)

\* BASE_HEIGHT of viewer_3d_config, the height of the arm's pivot
BASE_HEIGHT == 60

Abs(n) == IF n < 0 THEN -n ELSE n

Max(a, b) == IF a > b THEN a ELSE b

RECURSIVE Gcd(_, _)
Gcd(a, b) == IF b = 0 THEN a ELSE Gcd(b, a % b)

\* the largest r in lo..hi with r * r <= n
RECURSIVE SqrtBelow(_, _, _)
SqrtBelow(n, lo, hi) ==
    IF lo = hi
    THEN lo
    ELSE LET mid == (lo + hi + 1) \div 2
         IN IF mid * mid <= n
            THEN SqrtBelow(n, mid, hi)
            ELSE SqrtBelow(n, lo, mid - 1)

\* math.sqrt of a whole number: the root of a square, and the whole part
\* of the root of any other number (46340 is the largest whole number whose
\* square is below 2^31)
Sqrt(n) == SqrtBelow(n, 0, Min(n, 46340))

\* An angle is held as the direction it points in: the pair <<c, s>> of
\* whole numbers without a common factor that is proportional to its cosine
\* and sine.  Two angles between -180 and 180 degrees are equal exactly
\* when their directions are.
Direction(c, s) ==
    LET g == Gcd(Abs(c), Abs(s)) IN <<c \div g, s \div g>>

\* the angles the code writes as numbers of degrees: 0, 45, 90 and 180
Degrees0 == <<1, 0>>
Degrees45 == <<1, 1>>
Degrees90 == <<0, 1>>
Degrees180 == <<-1, 0>>

\* math.degrees(math.atan2(y, x)); atan2(0, 0) is 0
Atan2(y, x) == IF x = 0 /\ y = 0 THEN Degrees0 ELSE Direction(x, y)

\* math.degrees(math.acos(num / den)) for den > 0 and -den <= num <= den:
\* the angle between 0 and 180 degrees whose cosine is num / den
Acos(num, den) ==
    LET g == Gcd(Abs(num), den)
        n == num \div g
        d == den \div g
    IN Direction(n, Sqrt(d * d - n * n))

\* the difference and the sum of two angles
AngleSub(a, b) == Direction(a[1] * b[1] + a[2] * b[2], a[2] * b[1] - a[1] * b[2])

AngleAdd(a, b) == Direction(a[1] * b[1] - a[2] * b[2], a[2] * b[1] + a[1] * b[2])

\* max(-1, min(1, num / den)) as a numerator over den
ClampCos(num, den) == Max(-den, Min(den, num))

\* a solver that lets heights below the base through
VerticalDist_Unclamped(y) == y - BASE_HEIGHT * Scale

\* the height above the base, never below 0
VerticalDist(y) ==
    IF y - BASE_HEIGHT * Scale < 0 THEN 0 ELSE y - BASE_HEIGHT * Scale

\* a solver without the except clause: the division by zero leaves it
ArmAngles_NoExcept(horizontal_dist, vertical_dist, target_dist) ==
    LET L == LOWER_ARM_LENGTH * Scale
        U == UPPER_ARM_LENGTH * Scale
    IN IF 2 * L * target_dist = 0 \/ 2 * L * U = 0
       THEN [raises |-> TRUE, lower_arm |-> Degrees0, upper_arm |-> Degrees0]
       ELSE [raises |-> FALSE,
             lower_arm |->
                 AngleSub(Atan2(vertical_dist, horizontal_dist),
                          Acos(ClampCos(L * L + target_dist * target_dist
                                            - U * U,
                                        2 * L * target_dist),
                               2 * L * target_dist)),
             upper_arm |->
                 AngleSub(Degrees180,
                          Acos(ClampCos(L * L + U * U
                                            - target_dist * target_dist,
                                        2 * L * U),
                               2 * L * U))]

\* the try block: the two arm angles by the law of cosines, and 45 and 90
\* degrees when a division by zero (a ZeroDivisionError) interrupts it
ArmAngles(horizontal_dist, vertical_dist, target_dist) ==
    LET L == LOWER_ARM_LENGTH * Scale
        U == UPPER_ARM_LENGTH * Scale
    IN IF 2 * L * target_dist = 0 \/ 2 * L * U = 0
       THEN [raises |-> FALSE, lower_arm |-> Degrees45,
             upper_arm |-> Degrees90]
       ELSE [raises |-> FALSE,
             lower_arm |->
                 AngleSub(Atan2(vertical_dist, horizontal_dist),
                          Acos(ClampCos(L * L + target_dist * target_dist
                                            - U * U,
                                        2 * L * target_dist),
                               2 * L * target_dist)),
             upper_arm |->
                 AngleSub(Degrees180,
                          Acos(ClampCos(L * L + U * U
                                            - target_dist * target_dist,
                                        2 * L * U),
                               2 * L * U))]

\* _calculate_arm_angles(position): the pose, or raises when an exception
\* leaves the function.  The scaling of an unreachable target multiplies
\* by max_reach before it divides by target_dist, which is the same number.
CalculateArmAngles(position) ==
    LET x == position[1]
        y == position[2]
        z == position[3]
        rotation_angle == IF z # 0 \/ x # 0 THEN Atan2(x, z) ELSE Degrees0
        horizontal == Sqrt(x * x + z * z)
        vertical == VerticalDist(y)
        dist == Sqrt(horizontal * horizontal + vertical * vertical)
        max_reach == (LOWER_ARM_LENGTH + UPPER_ARM_LENGTH) * Scale
        horizontal_dist == IF dist > max_reach
                           THEN (horizontal * max_reach) \div dist
                           ELSE horizontal
        vertical_dist == IF dist > max_reach
                         THEN (vertical * max_reach) \div dist
                         ELSE vertical
        target_dist == IF dist > max_reach THEN max_reach ELSE dist
        arm == ArmAngles(horizontal_dist, vertical_dist, target_dist)
    IN [raises |-> arm.raises,
        rotation |-> rotation_angle,
        lower_arm |-> arm.lower_arm,
        upper_arm |-> arm.upper_arm]

IsSquare(n) == Sqrt(n) * Sqrt(n) = n

\* the positions on which every root and every quotient the solver takes
\* is a whole number, so that the arithmetic above is exact
ExactPosition(p) ==
    LET L == LOWER_ARM_LENGTH * Scale
        U == UPPER_ARM_LENGTH * Scale
        max_reach == L + U
        horizontal == Sqrt(p[1] * p[1] + p[3] * p[3])
        vertical == VerticalDist(p[2])
        dist == Sqrt(horizontal * horizontal + vertical * vertical)
        d == Min(dist, max_reach)
        ExactCos(num, den) ==
            LET g == Gcd(Abs(num), den)
            IN IsSquare((den \div g) * (den \div g) - (num \div g) * (num \div g))
    IN /\ IsSquare(p[1] * p[1] + p[3] * p[3])
       /\ IsSquare(horizontal * horizontal + vertical * vertical)
       /\ dist > max_reach =>
              /\ (horizontal * max_reach) % dist = 0
              /\ (vertical * max_reach) % dist = 0
       /\ d > 0 =>
              /\ ExactCos(ClampCos(L * L + d * d - U * U, 2 * L * d), 2 * L * d)
              /\ ExactCos(ClampCos(L * L + U * U - d * d, 2 * L * U), 2 * L * U)

\* the horizontal coordinates and the heights of the positions solved
SolverAxis == {-192, -144, 0, 144, 192, 240, 300, 600}

SolverHeights == {-180, -132, 0, 60, 204, 252, 460, 860}

SolverPositions ==
    {p \in {Pos(x, y, z) : x \in SolverAxis, y \in SolverHeights,
                           z \in SolverAxis} : ExactPosition(p)}

NoPose ==
    [raises |-> FALSE, rotation |-> Degrees0, lower_arm |-> Degrees0,
     upper_arm |-> Degrees0]

\* the viewer calls the solver on the position it draws
SolveCall ==
    /\ lastOp.op = "position"
    /\ lastOp' = [op |-> "solve", position |-> lastOp.position,
                  ret |-> CalculateArmAngles(lastOp.position)]
    /\ UNCHANGED <<running, motors_enabled, effector_active, robot_position,
                   target_position, animation_progress, is_executing_gcode,
                   gcode_queue, current_position, coordinate_mode, thr,
                   cancelled, halted>>

SolveInit ==
    /\ running = FALSE
    /\ motors_enabled = FALSE
    /\ effector_active = FALSE
    /\ robot_position = home_position
    /\ target_position = home_position
    /\ animation_progress = ProgressOne
    /\ is_executing_gcode = FALSE
    /\ gcode_queue = <<>>
    /\ current_position = home_position
    /\ coordinate_mode = "absolute"
    /\ thr = [t \in Threads |-> NoThread]
    /\ cancelled = {}
    /\ halted = {}
    /\ lastOp \in {[op |-> "position", position |-> p, ret |-> NoPose] :
                       p \in SolverPositions}

SolveNext == SolveCall

\* the solver on its own, applied to any of the positions
SolveSpec == SolveInit /\ [][SolveNext]_vars

----------------------------------------------------------------------------
(* update_position(animate=True) and a frame of the viewer loop, statement
   by statement *)

\* Here lastOp holds the two program counters and the frame's locals:
\*   tick   where the frame is: "idle" before its test, "add" before the
\*          right-hand side of the progress assignment is read, "store"
\*          before the assignment stores it, "lerp" before axis i is written
\*   tmp    the value the assignment is about to store
\*   stale  tmp was read before update_position reset the progress
\*   call   where update_position is: "called", "target_set" after its
\*          first assignment, "returned" after its second
\*   p      the position update_position was called with
\*   hit    a statement of update_position ran during the current frame

\* the frame length, half a second
RaceDt == ProgressOne \div 2

RaceOld == {Pos(8, 0, 0), Pos(0, 0, 8)}

RaceNew == {Pos(0, 8, 0), Pos(0, 16, 0)}

RaceUnchanged ==
    UNCHANGED <<running, motors_enabled, effector_active, is_executing_gcode,
                gcode_queue, current_position, coordinate_mode, thr,
                cancelled, halted>>

\* if self.animation_progress < 1.0:
RaceTickTest ==
    /\ lastOp.tick = "idle"
    /\ lastOp' = [lastOp EXCEPT
                      !.tick = IF animation_progress < ProgressOne
                               THEN "add" ELSE "idle",
                      !.hit = FALSE]
    /\ UNCHANGED <<robot_position, target_position, animation_progress>>
    /\ RaceUnchanged

\* min(1.0, self.animation_progress + dt * self.animation_speed)
RaceTickAdd ==
    /\ lastOp.tick = "add"
    /\ lastOp' = [lastOp EXCEPT
                      !.tick = "store",
                      !.tmp = Min(ProgressOne, animation_progress + RaceDt),
                      !.stale = lastOp.call # "returned"]
    /\ UNCHANGED <<robot_position, target_position, animation_progress>>
    /\ RaceUnchanged

\* self.animation_progress = ...
RaceTickStore ==
    /\ lastOp.tick = "store"
    /\ animation_progress' = lastOp.tmp
    /\ lastOp' = [lastOp EXCEPT !.tick = "lerp", !.i = 1]
    /\ UNCHANGED <<robot_position, target_position>>
    /\ RaceUnchanged

\* self.robot_position[i] = self._lerp(...), for one i
RaceTickLerp ==
    /\ lastOp.tick = "lerp"
    /\ robot_position' =
           [robot_position EXCEPT
                ![lastOp.i] = Lerp(robot_position[lastOp.i],
                                   target_position[lastOp.i],
                                   animation_progress)]
    /\ lastOp' = IF lastOp.i = 3
                 THEN [lastOp EXCEPT !.tick = "idle", !.i = 0]
                 ELSE [lastOp EXCEPT !.i = @ + 1]
    /\ UNCHANGED <<target_position, animation_progress>>
    /\ RaceUnchanged

\* self.target_position = [x, y, z], past the motors check
RaceCallTarget ==
    /\ lastOp.call = "called"
    /\ motors_enabled
    /\ target_position' = lastOp.p
    /\ lastOp' = [lastOp EXCEPT !.call = "target_set",
                                !.hit = @ \/ lastOp.tick # "idle"]
    /\ UNCHANGED <<robot_position, animation_progress>>
    /\ RaceUnchanged

\* self.animation_progress = 0.0, and the return
RaceCallProgress ==
    /\ lastOp.call = "target_set"
    /\ animation_progress' = 0
    /\ lastOp' = [lastOp EXCEPT !.call = "returned",
                                !.hit = @ \/ lastOp.tick # "idle"]
    /\ UNCHANGED <<robot_position, target_position>>
    /\ RaceUnchanged

\* the viewer runs, the motors are on, a movement from the origin is under
\* way or has just been asked for, and update_position(animate=True) is
\* called with another position
RaceInit ==
    /\ running = TRUE
    /\ motors_enabled = TRUE
    /\ effector_active = FALSE
    /\ robot_position = Pos(0, 0, 0)
    /\ target_position \in RaceOld
    /\ animation_progress \in 0..(ProgressOne - 1)
    /\ is_executing_gcode = FALSE
    /\ gcode_queue = <<>>
    /\ current_position = home_position
    /\ coordinate_mode = "absolute"
    /\ thr = [t \in Threads |-> NoThread]
    /\ cancelled = {}
    /\ halted = {}
    /\ lastOp \in {[op |-> "race", tick |-> "idle", i |-> 0, tmp |-> 0,
                    stale |-> FALSE, call |-> "called", p |-> p,
                    hit |-> FALSE] : p \in RaceNew}

RaceNext ==
    \/ RaceTickTest
    \/ RaceTickAdd
    \/ RaceTickStore
    \/ RaceTickLerp
    \/ RaceCallTarget
    \/ RaceCallProgress

RaceSpec == RaceInit /\ [][RaceNext]_vars

----------------------------------------------------------------------------
(* RobotGUI (src/gui_client/main.py): the GUI's flags and the viewer's *)

\* Here lastOp holds the GUI's own state next to the last call:
\*   op, res          the RPC method called and what the server answered,
\*                    or "toggle_3d_viewer"
\*   gui_motors       RobotGUI.motors_enabled
\*   robot_connected  RobotGUI.robot_connected

\* what getStatus answers: isConnected and areMotorsEnabled
StatusResults == {[isConnected |-> c, areMotorsEnabled |-> m] :
                      c \in BOOLEAN, m \in BOOLEAN}

GuiUnchanged ==
    UNCHANGED <<robot_position, target_position, animation_progress,
                is_executing_gcode, gcode_queue, current_position,
                coordinate_mode, thr, cancelled, halted>>

\* update_3d_viewer_state(motors_enabled=m): set_robot_state on a viewer
\* that is running, nothing otherwise
ViewerMotorsAfter(m) == IF running THEN m ELSE motors_enabled

\* _rpc_call('enableMotors') and _rpc_call('disableMotors')
GuiMotorsCall(on, res) ==
    /\ lastOp' = [lastOp EXCEPT
                      !.op = IF on THEN "enableMotors" ELSE "disableMotors",
                      !.res = res,
                      !.gui_motors = IF res THEN on ELSE @]
    /\ motors_enabled' = IF res THEN ViewerMotorsAfter(on) ELSE motors_enabled
    /\ UNCHANGED <<running, effector_active>>
    /\ GuiUnchanged

\* _rpc_call('setEffector', on)
GuiEffectorCall(on, res) ==
    /\ lastOp' = [lastOp EXCEPT !.op = "setEffector", !.res = res]
    /\ effector_active' = IF res /\ running THEN on ELSE effector_active
    /\ UNCHANGED <<running, motors_enabled>>
    /\ GuiUnchanged

\* _rpc_call('connect') and _rpc_call('disconnect')
GuiConnectCall(on, res) ==
    /\ lastOp' = [lastOp EXCEPT
                      !.op = IF on THEN "connect" ELSE "disconnect",
                      !.res = res,
                      !.robot_connected = IF res THEN on ELSE @,
                      !.gui_motors = IF res /\ ~on THEN FALSE ELSE @]
    /\ motors_enabled' = IF res /\ ~on
                         THEN ViewerMotorsAfter(FALSE) ELSE motors_enabled
    /\ UNCHANGED <<running, effector_active>>
    /\ GuiUnchanged

\* _rpc_call('getStatus') answered with a status that gives no position
GuiStatusCall(status) ==
    /\ lastOp' = [lastOp EXCEPT
                      !.op = "getStatus",
                      !.res = status.areMotorsEnabled,
                      !.robot_connected = status.isConnected,
                      !.gui_motors = status.areMotorsEnabled]
    /\ motors_enabled' = ViewerMotorsAfter(status.areMotorsEnabled)
    /\ UNCHANGED <<running, effector_active>>
    /\ GuiUnchanged

\* toggle_3d_viewer(): refused when the robot is not connected and the
\* viewer is closed, else the viewer is stopped or started
GuiToggleViewer ==
    /\ lastOp' = [lastOp EXCEPT !.op = "toggle_3d_viewer", !.res = TRUE]
    /\ running' = IF ~lastOp.robot_connected /\ ~running
                  THEN running ELSE ~running
    /\ UNCHANGED <<motors_enabled, effector_active>>
    /\ GuiUnchanged

\* RobotGUI.__init__ with its fresh Robot3DViewer
GuiInit ==
    /\ running = FALSE
    /\ motors_enabled = FALSE
    /\ effector_active = FALSE
    /\ robot_position = home_position
    /\ target_position = home_position
    /\ animation_progress = ProgressOne
    /\ is_executing_gcode = FALSE
    /\ gcode_queue = <<>>
    /\ current_position = home_position
    /\ coordinate_mode = "absolute"
    /\ thr = [t \in Threads |-> NoThread]
    /\ cancelled = {}
    /\ halted = {}
    /\ lastOp = [op |-> "init", res |-> TRUE, gui_motors |-> FALSE,
                 robot_connected |-> FALSE]

GuiNext ==
    \/ \E on \in BOOLEAN, res \in BOOLEAN : GuiMotorsCall(on, res)
    \/ \E on \in BOOLEAN, res \in BOOLEAN : GuiConnectCall(on, res)
    \/ \E on \in BOOLEAN, res \in BOOLEAN : GuiEffectorCall(on, res)
    \/ \E status \in StatusResults : GuiStatusCall(status)
    \/ GuiToggleViewer

GuiSpec == GuiInit /\ [][GuiNext]_vars

----------------------------------------------------------------------------
(* RobotRpcClient (src/client_api.py): the stored credentials and the robot
   operations they guard.  A string is a sequence of characters; the
   client's fields are held in the record lastOp together with what the
   last call did. *)

\* an Optional[str] field: None, or a string
None == [none |-> TRUE, val |-> <<>>]
Str(s) == [none |-> FALSE, val |-> s]

\* the Optional[int] field role
NoRole == [none |-> TRUE, val |-> 0]
Role(r) == [none |-> FALSE, val |-> r]

\* Python's "not field" for an Optional[str]: None and "" are both false
Falsy(field) == field.none \/ field.val = <<>>

\* _credentials(): raises RuntimeError("No hay sesion activa ...") when the
\* stored username or the stored password is false
NoSession(username, password) == Falsy(username) \/ Falsy(password)

\* user names and passwords typed at login
Usernames == {<<>>, <<"o", "p">>, <<"a">>}
Passwords == {<<>>, <<"p", "w">>}

\* what robot.authenticate can answer: a dict with authenticated and role,
\* some other value, or a Fault or connection error
AuthResults ==
    {[kind |-> "dict", authenticated |-> a, role |-> r] :
         a \in BOOLEAN, r \in {0, 1}}
    \cup {[kind |-> k, authenticated |-> FALSE, role |-> 0] :
              k \in {"value", "fault"}}

\* the robot operations and the RPC each one sends once _credentials has
\* returned ("none": the operation answers locally)
RobotOperations ==
    {[name |-> "connect_robot", rpc |-> "connect"],
     [name |-> "disconnect_robot", rpc |-> "disconnect"],
     [name |-> "enable_remote", rpc |-> "none"],
     [name |-> "disable_remote", rpc |-> "none"],
     [name |-> "activate_motors", rpc |-> "enableMotors"],
     [name |-> "deactivate_motors", rpc |-> "disableMotors"],
     [name |-> "list_commands", rpc |-> "listTasks"],
     [name |-> "report_operator", rpc |-> "getReport"],
     [name |-> "report_admin", rpc |-> "getAdminReport"],
     [name |-> "set_mode", rpc |-> "setCoordinateMode"],
     [name |-> "home", rpc |-> "none"],
     [name |-> "move", rpc |-> "moveDefaultSpeed"],
     [name |-> "move", rpc |-> "move"],
     [name |-> "set_end_effector", rpc |-> "setEffector"],
     [name |-> "learning_start", rpc |-> "none"],
     [name |-> "learning_add_step", rpc |-> "none"],
     [name |-> "learning_save", rpc |-> "none"],
     [name |-> "run_program", rpc |-> "executeTask"],
     [name |-> "list_programs", rpc |-> "listTasks"]}

ClientUnchanged ==
    UNCHANGED <<running, motors_enabled, effector_active, robot_position,
                target_position, animation_progress, is_executing_gcode,
                gcode_queue, current_position, coordinate_mode, thr,
                cancelled, halted>>

\* login(username, password) answered with result; active records that a
\* login has succeeded and no logout has followed
Login(username, password, result) ==
    LET ok == result.kind = "dict" /\ result.authenticated
    IN /\ lastOp' =
              IF ok
              THEN [op |-> "login", ret |-> TRUE, raised |-> FALSE,
                    sent |-> "authenticate", active |-> TRUE,
                    session_id |-> Str(username \o <<":">> \o password),
                    username |-> Str(username),
                    password |-> Str(password),
                    role |-> Role(result.role)]
              ELSE [lastOp EXCEPT !.op = "login", !.ret = FALSE,
                                  !.raised = FALSE, !.sent = "authenticate"]
       /\ ClientUnchanged

\* logout()
Logout ==
    /\ lastOp' = [op |-> "logout", ret |-> TRUE, raised |-> FALSE,
                  sent |-> "none", active |-> FALSE,
                  session_id |-> None, username |-> None,
                  password |-> None, role |-> NoRole]
    /\ ClientUnchanged

\* one robot operation: _credentials(), then the operation's RPC
RobotCall(operation) ==
    LET raises == NoSession(lastOp.username, lastOp.password)
    IN/\ lastOp' = [lastOp EXCEPT
                         !.op = operation.name,
                         !.ret = ~raises,
                         !.raised = raises,
                         !.sent = IF raises THEN "none" ELSE operation.rpc]
       /\ ClientUnchanged

\* RobotRpcClient.__init__
ClientInit ==
    /\ running = FALSE
    /\ motors_enabled = FALSE
    /\ effector_active = FALSE
    /\ robot_position = home_position
    /\ target_position = home_position
    /\ animation_progress = ProgressOne
    /\ is_executing_gcode = FALSE
    /\ gcode_queue = <<>>
    /\ current_position = home_position
    /\ coordinate_mode = "absolute"
    /\ thr = [t \in Threads |-> NoThread]
    /\ cancelled = {}
    /\ halted = {}
    /\ lastOp = [op |-> "init", ret |-> TRUE, raised |-> FALSE,
                 sent |-> "none", active |-> FALSE,
                 session_id |-> None, username |-> None,
                 password |-> None, role |-> NoRole]

ClientNext ==
    \/ \E username \in Usernames, password \in Passwords,
          result \in AuthResults : Login(username, password, result)
    \/ Logout
    \/ \E operation \in RobotOperations : RobotCall(operation)

ClientSpec == ClientInit /\ [][ClientNext]_vars

----------------------------------------------------------------------------
(* The command loop of the CLI (src/cli.py): learning mode.  The module's
   globals are held in the record lastOp; issued is the G-code of the
   recordable commands that completed since the latest aprender_inicio,
   kept whether or not learning mode is on. *)

\* longest list of G-code followed
MaxLearned == 3

\* the recordable commands whose G-code is fixed
FixedRecordable ==
    {[command |-> "motores_off", gcode |-> <<"M", "1", "8">>],
     [command |-> "efector_on", gcode |-> <<"M", "3">>],
     [command |-> "efector_off", gcode |-> <<"M", "5">>],
     [command |-> "modo_absoluto", gcode |-> <<"G", "9", "0">>],
     [command |-> "modo_relativo", gcode |-> <<"G", "9", "1">>]}

\* commands that leave the learning state alone
PlainCommands ==
    {"conectar", "desconectar", "motores_on", "user_add", "estado",
     "reporte", "report_admin", "report_log", "lista_tareas",
     "ejecutar_tarea", "ayuda", "unknown"}

\* the commands argument of the addTask call of the last command, if any
NotSent == [none |-> TRUE, commands |-> <<>>]
Sent(commands) == [none |-> FALSE, commands |-> commands]

CliUnchanged ==
    UNCHANGED <<running, motors_enabled, effector_active, robot_position,
                target_position, animation_progress, is_executing_gcode,
                gcode_queue, current_position, coordinate_mode, thr,
                cancelled, halted>>

\* motores_off, efector_on, efector_off, modo_absoluto, modo_relativo: the
\* RPC, then the append when learning; an exception of the RPC (ok false)
\* leaves the handler before the append
CliFixedCommand(c, ok) ==
    /\ Len(lastOp.issued) < MaxLearned
    /\ lastOp' = [lastOp EXCEPT
                      !.op = c.command,
                      !.completed = ok,
                      !.sent = NotSent,
                      !.learned_gcode_commands =
                          IF ok /\ lastOp.learning_mode_active
                          THEN Append(@, c.gcode) ELSE @,
                      !.issued = IF ok THEN Append(@, c.gcode) ELSE @]
    /\ CliUnchanged

\* mover <x> <y> <z> [vel]: generate_gcode, the RPC, then the append when
\* learning; an exception of either leaves the handler before the append
CliMover(x, y, z, speed, ok) ==
    LET g == GenerateGcode(x, y, z, speed)
        done == ~g.raises /\ ok
    IN /\ Len(lastOp.issued) < MaxLearned
       /\ lastOp' = [lastOp EXCEPT
                         !.op = "mover",
                         !.completed = done,
                         !.sent = NotSent,
                         !.learned_gcode_commands =
                             IF done /\ lastOp.learning_mode_active
                             THEN Append(@, g.text) ELSE @,
                         !.issued = IF done THEN Append(@, g.text) ELSE @]
       /\ CliUnchanged

\* a command that does not touch the learning state
CliPlainCommand(command, ok) ==
    /\ lastOp' = [lastOp EXCEPT !.op = command, !.completed = ok,
                                !.sent = NotSent]
    /\ CliUnchanged

\* aprender_inicio: refused with fewer than two arguments, else learning
\* mode is switched on and the list is replaced by an empty one
CliAprenderInicio(wellFormed) ==
    /\ lastOp' =
           IF wellFormed
           THEN [lastOp EXCEPT !.op = "aprender_inicio",
                               !.completed = TRUE,
                               !.sent = NotSent,
                               !.learning_mode_active = TRUE,
                               !.learned_gcode_commands = <<>>,
                               !.issued = <<>>]
           ELSE [lastOp EXCEPT !.op = "aprender_inicio",
                               !.completed = FALSE,
                               !.sent = NotSent]
    /\ CliUnchanged

\* aprender_fin: refused when not learning, else learning mode is switched
\* off and addTask is called with the list; its exception is caught
CliAprenderFin(ok) ==
    /\ lastOp' =
           IF ~lastOp.learning_mode_active
           THEN [lastOp EXCEPT !.op = "aprender_fin",
                               !.completed = FALSE,
                               !.sent = NotSent]
           ELSE [lastOp EXCEPT !.op = "aprender_fin",
                               !.completed = ok,
                               !.sent = Sent(lastOp.learned_gcode_commands),
                               !.learning_mode_active = FALSE]
    /\ CliUnchanged

\* the module's globals when main_loop starts
CliInit ==
    /\ running = FALSE
    /\ motors_enabled = FALSE
    /\ effector_active = FALSE
    /\ robot_position = home_position
    /\ target_position = home_position
    /\ animation_progress = ProgressOne
    /\ is_executing_gcode = FALSE
    /\ gcode_queue = <<>>
    /\ current_position = home_position
    /\ coordinate_mode = "absolute"
    /\ thr = [t \in Threads |-> NoThread]
    /\ cancelled = {}
    /\ halted = {}
    /\ lastOp = [op |-> "init", completed |-> TRUE, sent |-> NotSent,
                 learning_mode_active |-> FALSE,
                 learned_gcode_commands |-> <<>>, issued |-> <<>>]

CliNext ==
    \/ \E c \in FixedRecordable, ok \in BOOLEAN : CliFixedCommand(c, ok)
    \/ \E x \in RoundValues, y \in RoundValues, z \in RoundValues,
          speed \in {0, Scale}, ok \in BOOLEAN : CliMover(x, y, z, speed, ok)
    \/ \E command \in PlainCommands, ok \in BOOLEAN :
           CliPlainCommand(command, ok)
    \/ \E wellFormed \in BOOLEAN : CliAprenderInicio(wellFormed)
    \/ \E ok \in BOOLEAN : CliAprenderFin(ok)

CliSpec == CliInit /\ [][CliNext]_vars

\* the dispatch threads and the viewer loop are threads of the interpreter:
\* each takes its next step when it has one
LiveSpec ==
    /\ Init
    /\ [][LiveNext]_vars
    /\ WF_vars(TickStep)
    /\ \A t \in Threads : WF_vars(SeqStep(t))

----------------------------------------------------------------------------
(* Claims *)

\* thread t is inside its command loop
Dispatching(t) == thr[t].pc \in {"check", "dispatch", "wait"}

\* C1: execute_gcode called while motors_enabled is false changes nothing:
\* the queue, the executing flag, the coordinate mode, the three positions
\* and the animation progress keep their values, and no thread is started.
C1_RejectedSubmitMutatesNothing ==
    [][(lastOp' = "execute_gcode" /\ ~motors_enabled) =>
           UNCHANGED <<gcode_queue, is_executing_gcode, coordinate_mode,
                       current_position, target_position, robot_position,
                       animation_progress, thr>>]_vars

\* a rejected submission made while an earlier program's queue is in place
C1_Witness ==
    /\ lastOp = "execute_gcode"
    /\ ~motors_enabled
    /\ gcode_queue # <<>>
    /\ \E t \in Threads : Dispatching(t)

\* C2: at most one program is being dispatched at any time.
C2_AtMostOneRunning ==
    Cardinality({t \in Threads : Dispatching(t)}) <= 1

\* the code of a line: its first token, upper-cased
CodeOf(line) == ExecParse(Strip(line)).main

IsMovement(line) == CodeOf(line) \in {L_G0, L_G1, L_G24}

\* the commands thread t has dispatched are the first ones of its program
InOrder(t) ==
    LET r == thr[t] IN
    /\ r.pc \in {"check", "dispatch", "exit"} => r.log = SubSeq(r.prog, 1, r.i - 1)
    /\ r.pc = "wait" => r.log = SubSeq(r.prog, 1, r.i)

\* what one step may do to thread t's place in its program
OrderedStep(t) ==
    LET r == thr[t]
        q == thr'[t]
    IN /\ (r.pc = "dispatch" /\ q # r) =>
              /\ q.log = Append(r.log, r.prog[r.i])
              /\ IF IsMovement(r.prog[r.i])
                 THEN q.pc = "wait" /\ q.i = r.i
                 ELSE q.pc = "check" /\ q.i = r.i + 1
       /\ (r.pc = "wait" /\ q # r) =>
              /\ animation_progress = ProgressOne
              /\ q.pc = "check" /\ q.i = r.i + 1
       /\ (r.pc = "check" /\ q # r) =>
              /\ q.i = r.i /\ q.log = r.log
              /\ q.pc = "dispatch" => r.i <= Len(r.prog)

\* C3: a running program's commands are dispatched strictly in list order;
\* after a movement command (G0, G1, G24) the next command is not dispatched
\* until animation_progress has reached 1.0; a non-movement command goes on
\* to the next command without waiting on animation_progress.
C3_InOrderAndMovesBlock ==
    /\ [](\A t \in Threads : InOrder(t))
    /\ [][\A t \in Threads : OrderedStep(t)]_vars

\* a whole program dispatched, its non-movement commands while an animation
\* was under way, its movement waited for
C3_Witness ==
    \E t \in Threads :
        /\ lastOp = "wait_done"
        /\ thr[t].pc = "check"
        /\ thr[t].i = Len(thr[t].prog) + 1
        /\ thr[t].log = thr[t].prog
        /\ Len(thr[t].prog) = 3

\* a step in which thread t dispatches a command
DispatchBy(t) == lastOp' = "dispatch" /\ thr'[t] # thr[t]

\* C4: once motors_enabled has become false while a program is running, no
\* later command of that program has an effect on coordinate_mode,
\* effector_active, current_position or target_position.
C4_NoEffectAfterMotorsOff ==
    [][\A t \in halted :
           DispatchBy(t) =>
               UNCHANGED <<coordinate_mode, effector_active, current_position,
                           target_position>>]_vars

\* C5: after stop_gcode_execution, the running program starts no further
\* command: its thread never again passes the check at the head of an
\* iteration.
C5_CancelledStartsNoCommand ==
    [][\A t \in cancelled :
           ~(thr[t].pc = "check" /\ thr'[t].pc = "dispatch")]_vars

\* C6: when stop_gcode_execution is called while a thread waits for a
\* movement, the next tick ends that wait.
C6_CancelWithinOneTick ==
    [][\A t \in Threads :
           (lastOp = "stop_gcode_execution" /\ thr[t].pc = "wait"
               /\ lastOp' = "tick")
           => WaitDone']_vars

\* C9: no step taken while motors_enabled is false changes robot_position,
\* target_position or current_position.
C9_NoPositionChangeWhileMotorsOff ==
    [][~motors_enabled =>
           UNCHANGED <<robot_position, target_position, current_position>>]_vars

\* no dispatch thread is alive and the executing flag is down
Idle == ~is_executing_gcode /\ \A t \in Threads : ~Alive(t)

\* the viewer loop is running and the last step was one of the interpreter's
\* own threads (a dispatch thread or the viewer loop), not a call from outside
OwnStep ==
    /\ running
    /\ lastOp \in {"seq_start", "seq_check", "dispatch", "wait_done",
                   "seq_exit", "tick"}

C8_MotorsOffEndsWait ==
    <>[](lastOp \in {"seq_start", "seq_check", "dispatch", "wait_done",
                     "seq_exit", "tick"})
    => \A t \in Threads :
           []((thr[t].pc = "wait" /\ ~motors_enabled /\ t \in halted)
             => <>(thr[t].pc # "wait"))

\* the value the claim gives axis k (key letter) of a movement line
AxisTarget(line, k, letter) ==
    LET args == Parsed[line].params IN
    IF letter \in DOMAIN args
    THEN IF coordinate_mode = "absolute"
         THEN args[letter]
         ELSE current_position[k] + args[letter]
    ELSE current_position[k]

ResolvedTarget(line) ==
    <<AxisTarget(line, 1, "X"), AxisTarget(line, 2, "Y"), AxisTarget(line, 3, "Z")>>

\* C10: a G0/G1 command resolves its target axis by axis: a supplied key
\* gives the value itself in absolute mode and current_position[axis] plus
\* the value in relative mode; an axis without a key keeps
\* current_position[axis].  The resolved target becomes current_position,
\* and target_position when the motors are on.
C10_TargetPerAxis ==
    [][\A t \in Threads :
           (DispatchBy(t) /\ CodeOf(thr[t].prog[thr[t].i]) \in {L_G0, L_G1})
           => /\ current_position' = ResolvedTarget(thr[t].prog[thr[t].i])
              /\ motors_enabled =>
                     target_position' = ResolvedTarget(thr[t].prog[thr[t].i])]_vars

\* from (1,2,3) in relative mode, "G1 X2" has resolved to (3,2,3)
C10_Witness ==
    \E t \in Threads :
        /\ lastOp = "dispatch"
        /\ thr[t].pc = "wait"
        /\ thr[t].log = <<L_G1_X1Y2Z3, L_G91, L_G1_X2>>
        /\ coordinate_mode = "relative"
        /\ current_position = Pos(3, 2, 3)
        /\ target_position = Pos(3, 2, 3)

\* target_position and effector_active after the k-th command of E2EProgram
E2ETargets ==
    <<home_position, Pos(5, 8, 5), Pos(5, 8, 5), Pos(5, 8, 5), Pos(2, 8, 5),
      Pos(2, 8, 5), home_position>>

E2EEffector == <<FALSE, FALSE, TRUE, TRUE, TRUE, FALSE, FALSE>>

\* C11: the program G90, G1 X5 Y8 Z5, M3, G91, G1 X-3, M5, G24, run from
\* home with the motors on and undisturbed, produces in this order and with
\* nothing in between: a move to (5,8,5), effector on, a move to (2,8,5),
\* effector off, a move to home.  After k commands the target and the
\* effector are the ones the k-th command leaves, and each move has arrived
\* before the next command is looked at.
C11_EndToEnd ==
    \A t \in Threads :
        thr[t].prog = E2EProgram =>
            LET k == Len(thr[t].log) IN
            /\ target_position = IF k = 0 THEN home_position ELSE E2ETargets[k]
            /\ current_position = target_position
            /\ effector_active = IF k = 0 THEN FALSE ELSE E2EEffector[k]
            /\ thr[t].pc # "wait" => robot_position = target_position

\* the program has run to its end and the arm is back home
C11_Witness ==
    \E t \in Threads :
        /\ thr[t].prog = E2EProgram
        /\ thr[t].log = E2EProgram
        /\ thr[t].pc = "exit"
        /\ robot_position = home_position
        /\ ~effector_active

\* the codes _execute_gcode_command knows
KnownCodes == {L_G90, L_G91, L_G0, L_G1, L_M3, L_M5, L_G24}

\* C12: a command whose code is none of G90, G91, G0, G1, M3, M5, G24 is
\* skipped: its dispatch changes neither coordinate_mode, effector_active,
\* current_position, target_position nor animation_progress, the thread goes
\* on to the next command, and an undisturbed program is dispatched to its
\* last command.
C12_UnknownCodeSkipped ==
    /\ [][\A t \in Threads :
              (/\ DispatchBy(t)
               /\ ~Parsed[thr[t].prog[thr[t].i]].skip
               /\ CodeOf(thr[t].prog[thr[t].i]) \notin KnownCodes)
              => /\ UNCHANGED <<coordinate_mode, effector_active,
                                current_position, target_position,
                                animation_progress>>
                 /\ thr'[t].pc = "check"
                 /\ thr'[t].i = thr[t].i + 1]_vars
    /\ [](\A t \in Threads : thr[t].pc = "exit" => thr[t].log = thr[t].prog)

\* the command after the unknown one has been dispatched
C12_Witness ==
    \E t \in Threads :
        /\ thr[t].prog = OddProgram
        /\ thr[t].log = SubSeq(OddProgram, 1, 4)
        /\ thr[t].log[3] = L_T1_X9
        /\ thr[t].pc = "wait"
        /\ coordinate_mode = "relative"

\* C13: coordinate_mode changes only when a G90 or G91 command is
\* dispatched; every other step, a submission with execute_gcode included,
\* leaves it unchanged.
C13_ModeOnlyByModeCommands ==
    [][coordinate_mode' # coordinate_mode =>
           \E t \in Threads :
               /\ DispatchBy(t)
               /\ CodeOf(thr[t].prog[thr[t].i]) \in {L_G90, L_G91}]_vars

\* C14: animation_progress never decreases across a tick, never exceeds
\* 1.0, and lies between 0 and 1 in every reachable state, whatever the
\* sequence of update_position calls and ticks.
C14_ProgressMonotoneAndClamped ==
    /\ [](animation_progress >= 0 /\ animation_progress <= ProgressOne)
    /\ [][lastOp' = "tick" =>
              /\ animation_progress' >= animation_progress
              /\ animation_progress' <= ProgressOne]_vars

\* a frame has brought an animation started from outside to its end
C14_Witness ==
    /\ lastOp = "tick"
    /\ animation_progress = ProgressOne
    /\ robot_position \in ExtTargets
    /\ running

\* C16: update_position with the motors on: with animate it sets
\* target_position to the argument and animation_progress to 0 and leaves
\* robot_position as it is; without animate it sets robot_position and
\* target_position to the argument and animation_progress to 1.
C16_UpdatePositionEffect ==
    [][\A p \in ExtTargets, animate \in BOOLEAN :
           (UpdatePosition(p, animate) /\ motors_enabled) =>
               IF animate
               THEN /\ target_position' = p
                    /\ animation_progress' = 0
                    /\ robot_position' = robot_position
               ELSE /\ target_position' = p
                    /\ robot_position' = p
                    /\ animation_progress' = ProgressOne]_vars

\* an animated update_position has set a target the arm is not at
C16_Witness ==
    /\ lastOp = "update_position"
    /\ motors_enabled
    /\ target_position \in ExtTargets
    /\ animation_progress = 0
    /\ robot_position # target_position

\* C17: G24 moves to the home position through the movement path of G0/G1,
\* whatever the coordinate mode and its arguments: dispatched with the
\* motors on it leaves target_position = current_position = home and a
\* restarted animation, the thread waits until animation_progress is 1.0,
\* and coordinate_mode is unchanged.
C17_G24MovesHome ==
    [][\A t \in Threads :
           /\ (/\ DispatchBy(t)
               /\ CodeOf(thr[t].prog[thr[t].i]) = L_G24
               /\ motors_enabled)
              => /\ target_position' = home_position
                 /\ current_position' = home_position
                 /\ animation_progress' = 0
                 /\ thr'[t].pc = "wait"
                 /\ UNCHANGED coordinate_mode
           /\ (/\ thr[t].pc = "wait"
               /\ CodeOf(thr[t].prog[thr[t].i]) = L_G24
               /\ thr'[t] # thr[t])
              => animation_progress = ProgressOne]_vars

\* "g24 x5" dispatched in relative mode: the target is home
C17_Witness ==
    \E t \in Threads :
        /\ lastOp = "dispatch"
        /\ thr[t].pc = "wait"
        /\ thr[t].prog[thr[t].i] = L_g24_x5
        /\ coordinate_mode = "relative"
        /\ target_position = home_position
        /\ animation_progress = 0

\* C18: home_robot called with the motors on sets target_position to
\* home_position and starts an animation (animation_progress = 0); called
\* with the motors off it changes nothing.
C18_HomeRobotMovesHome ==
    [][lastOp' = "home_robot" =>
           IF motors_enabled
           THEN /\ target_position' = home_position
                /\ animation_progress' = 0
           ELSE UNCHANGED <<robot_position, target_position,
                            animation_progress, current_position>>]_vars

\* the text is blank, or has nothing but whitespace before its first ";"
BlankOrCommentOnly(line) ==
    \A k \in 1..Len(line) :
        (\A j \in 1..(k - 1) : line[j] # ";") => (IsSpace(line[k]) \/ line[k] = ";")

\* C19: from_line never raises, and returns None if and only if the line is
\* blank or has nothing but whitespace before its first ";".
C19_FromLineTotal ==
    lastOp.op = "from_line" =>
        /\ ~lastOp.ret.raises
        /\ lastOp.ret.none <=> BlankOrCommentOnly(lastOp.line)

\* a comment-only line has given None
C19_Witness ==
    /\ lastOp.op = "from_line"
    /\ lastOp.line = <<" ", ";", "g", "1">>
    /\ lastOp.ret.none
    /\ ~lastOp.ret.raises

\* the texts appended after a ";" in the comparison of C20
CommentTexts == {<<>>, <<" ", "x", "1">>, <<";", "g">>}

\* what a parse yields, the comment apart
Yield(r) == [none |-> r.none, code |-> r.code, args |-> r.args]

\* C20: nothing at or after the first ";" of a line contributes to the code
\* or the args: a line parses like its part before the first ";", and like
\* itself with ";" and any text appended.
C20_CommentStripped ==
    lastOp.op = "from_line" =>
        LET line == lastOp.line
            k == FirstSemi(line)
        IN /\ k # 0 =>
                  Yield(lastOp.ret) = Yield(FromLine(SubSeq(line, 1, k - 1)))
           /\ \A text \in CommentTexts :
                  Yield(FromLine(line \o <<";">> \o text)) = Yield(lastOp.ret)

\* "g x1;1": the command g with X = 1, the token after the ";" left out
C20_Witness ==
    /\ lastOp.op = "from_line"
    /\ lastOp.line = <<"g", " ", "x", "1", ";">>
    /\ lastOp.ret.code = <<"G">>
    /\ DOMAIN lastOp.ret.args = {<<"X">>}
    /\ lastOp.ret.args[<<"X">>] = 1 * Scale

\* C15: the arm is at its target exactly when the progress is 1.0: after
\* the tick that brings animation_progress to 1.0 robot_position equals
\* target_position on every axis, and after a tick that leaves
\* animation_progress below 1.0 an axis that differed from its target still
\* differs.
C15_AtTargetExactlyAtOne ==
    [][lastOp' = "tick" =>
           /\ (animation_progress < ProgressOne
                  /\ animation_progress' = ProgressOne)
              => robot_position' = target_position'
           /\ animation_progress' < ProgressOne
              => \A k \in 1..3 :
                     robot_position[k] # target_position[k]
                     => robot_position'[k] # target_position'[k]]_vars

\* the places of the tokens with key k whose remainder is a number
Parseable(tokens, k, keyOf(_)) ==
    {i \in 1..Len(tokens) : keyOf(tokens[i]) = k /\ ParseFloat(Tail(tokens[i])).ok}

\* args is what the claim says of the tokens: a key is present when one of
\* its tokens has a number, and carries the number of the last of them
LastParseableWins(args, tokens, keyOf(_)) ==
    /\ DOMAIN args = {keyOf(tokens[i]) : i \in {j \in 1..Len(tokens) :
                                                   ParseFloat(Tail(tokens[j])).ok}}
    /\ \A k \in DOMAIN args :
           LET last == CHOOSE i \in Parseable(tokens, k, keyOf) :
                           \A j \in Parseable(tokens, k, keyOf) : j <= i
           IN args[k] = ParseFloat(Tail(tokens[last])).val

FromLineKey(token) == UpperChars(token[1])

ExecKey(token) == token[1]

\* the text before the first ";"
BeforeComment(line) ==
    IF FirstSemi(line) = 0 THEN line ELSE SubSeq(line, 1, FirstSemi(line) - 1)

\* C21: parsing is lenient per token, in from_line and in the interpreter's
\* own parsing: a token whose remainder after the first character is no
\* number is dropped and leaves the code and the other tokens' arguments as
\* they are, and of the tokens with one key the last with a number gives the
\* value.
C21_LenientLastWins ==
    /\ (lastOp.op = "from_line" /\ ~lastOp.ret.none) =>
           LET parts == Split(BeforeComment(lastOp.line)) IN
           /\ lastOp.ret.code = UpperStr(parts[1])
           /\ LastParseableWins(lastOp.ret.args, Tail(parts), FromLineKey)
    /\ (lastOp.op = "exec_parse" /\ ~lastOp.ret.skip) =>
           LET parts == Split(UpperStr(lastOp.line)) IN
           /\ lastOp.ret.main = parts[1]
           /\ LastParseableWins(lastOp.ret.params, Tail(parts), ExecKey)

\* "g1 x1 X-1 xg": X is -1, the value of the last token with a number
C21_Witness ==
    /\ lastOp.op = "from_line"
    /\ lastOp.line = <<"g", "1", " ", "x", "1", " ", "X", "-", "1", " ", "x", "g">>
    /\ lastOp.ret.code = <<"G", "1">>
    /\ DOMAIN lastOp.ret.args = {<<"X">>}
    /\ lastOp.ret.args[<<"X">>] = -1 * Scale

\* C22: every command from_line returns has a code that is not empty, is
\* upper-cased and is the first whitespace-separated token of the text
\* before the comment, and argument keys that are single upper-cased
\* characters.
C22_CodeAndKeysUpperCased ==
    (lastOp.op = "from_line" /\ ~lastOp.ret.none) =>
        /\ lastOp.ret.code # <<>>
        /\ lastOp.ret.code = UpperStr(lastOp.ret.code)
        /\ lastOp.ret.code = UpperStr(Split(BeforeComment(lastOp.line))[1])
        /\ \A k \in DOMAIN lastOp.ret.args :
               Len(k) = 1 /\ UpperChars(k[1]) = k

\* C23: a command serialised to a text line as generate_gcode does and
\* parsed again gives the same code and the same arguments.
C23_RoundTrip ==
    lastOp.op = "round_trip" =>
        /\ ~lastOp.ret.raises
        /\ ~lastOp.ret.none
        /\ lastOp.ret.code = lastOp.cmd.code
        /\ lastOp.ret.args = lastOp.cmd.args

\* the steps the dispatch thread takes (_execute_gcode_sequence and what it
\* calls); the tick is the viewer's frame loop, every other step is a call
\* made from outside on the caller's thread
DispatchOps == {"seq_start", "seq_check", "dispatch", "wait_done", "seq_exit"}

\* C24: robot_position and animation_progress are written only by the tick
\* driver, and target_position, coordinate_mode and effector_active only
\* by the dispatch loop: no step of another thread changes them.
C24_SingleWriter ==
    [][/\ (robot_position' # robot_position
            \/ animation_progress' # animation_progress)
           => lastOp' = "tick"
       /\ (target_position' # target_position
            \/ coordinate_mode' # coordinate_mode
            \/ effector_active' # effector_active)
           => lastOp' \in DispatchOps]_vars

\* the cosine and the sine of an angle in thousandths, rounded down
CosMilli(a) ==
    (a[1] * 1000 * 1000) \div Sqrt((a[1] * a[1] + a[2] * a[2]) * 1000 * 1000)

SinMilli(a) ==
    (a[2] * 1000 * 1000) \div Sqrt((a[1] * a[1] + a[2] * a[2]) * 1000 * 1000)

\* forward kinematics of a pose, in thousandths of a unit: the lower arm
\* rises by lower_arm from the horizontal, the upper arm turns by upper_arm
\* from the lower arm, and the base rotation turns the arm's plane from the
\* z axis towards the x axis
ForwardKinematics(pose) ==
    LET L == LOWER_ARM_LENGTH * Scale
        U == UPPER_ARM_LENGTH * Scale
        elbow == AngleAdd(pose.lower_arm, pose.upper_arm)
        h == L * CosMilli(pose.lower_arm) + U * CosMilli(elbow)
        v == L * SinMilli(pose.lower_arm) + U * SinMilli(elbow)
    IN <<(h * SinMilli(pose.rotation)) \div 1000,
         BASE_HEIGHT * Scale * 1000 + v,
         (h * CosMilli(pose.rotation)) \div 1000>>

\* the square of the distance of a position from the base pivot
PivotDist2(p) ==
    p[1] * p[1] + (p[2] - BASE_HEIGHT * Scale) * (p[2] - BASE_HEIGHT * Scale)
        + p[3] * p[3]

MaxReach == (LOWER_ARM_LENGTH + UPPER_ARM_LENGTH) * Scale

InReach(p) == p[2] >= BASE_HEIGHT * Scale /\ PivotDist2(p) <= MaxReach * MaxReach

BeyondReach(p) == PivotDist2(p) > MaxReach * MaxReach

\* C25: for a target within reach (no farther from the base pivot than the
\* two arms together, and not below the base), forward kinematics of the
\* angles the solver returns gives the target back, each coordinate within
\* a thousandth of a unit.
C25_ForwardKinematics ==
    (lastOp.op = "solve" /\ InReach(lastOp.position)) =>
        \A i \in 1..3 :
            Abs(ForwardKinematics(lastOp.ret)[i] - 1000 * lastOp.position[i])
                <= Scale

\* p and q lie on one ray from the base pivot
SameRay(p, q) ==
    LET a == <<p[1], p[2] - BASE_HEIGHT * Scale, p[3]>>
        b == <<q[1], q[2] - BASE_HEIGHT * Scale, q[3]>>
    IN /\ a[2] * b[3] - a[3] * b[2] = 0
       /\ a[3] * b[1] - a[1] * b[3] = 0
       /\ a[1] * b[2] - a[2] * b[1] = 0
       /\ a[1] * b[1] + a[2] * b[2] + a[3] * b[3] > 0

\* C26: for a target farther from the base pivot than the two arms
\* together the solver returns the fully extended arm (upper-arm angle 0)
\* pointing in the target's direction from the pivot, and every other
\* target beyond reach on the same ray gets the same angles.
C26_ReachabilityClamp ==
    (lastOp.op = "solve" /\ BeyondReach(lastOp.position)) =>
        LET p == lastOp.position
        IN /\ lastOp.ret.upper_arm = Degrees0
           /\ lastOp.ret.rotation = Atan2(p[1], p[3])
           /\ lastOp.ret.lower_arm =
                  Atan2(p[2] - BASE_HEIGHT * Scale,
                        Sqrt(p[1] * p[1] + p[3] * p[3]))
           /\ \A q \in SolverPositions :
                  (BeyondReach(q) /\ SameRay(p, q)) =>
                      CalculateArmAngles(q) = lastOp.ret

\* C27: the solver returns a pose for every position, never an exception,
\* and for a position on the base's axis at or below the base height the
\* pose is base rotation 0, lower arm 45 and upper arm 90 degrees.
C27_DegenerateFallback ==
    lastOp.op = "solve" =>
        /\ ~lastOp.ret.raises
        /\ (/\ lastOp.position[1] = 0
            /\ lastOp.position[3] = 0
            /\ lastOp.position[2] <= BASE_HEIGHT * Scale)
           => /\ lastOp.ret.rotation = Degrees0
              /\ lastOp.ret.lower_arm = Degrees45
              /\ lastOp.ret.upper_arm = Degrees90

C27_Witness ==
    /\ lastOp.op = "solve"
    /\ lastOp.position = Pos(0, 0, 0)
    /\ ~lastOp.ret.raises
    /\ lastOp.ret.lower_arm = Degrees45
    /\ lastOp.ret.upper_arm = Degrees90

\* C28: a position at or below the base height gets the pose of the
\* position with the same x and z at the base height.
C28_BelowBaseClamped ==
    (lastOp.op = "solve" /\ lastOp.position[2] <= BASE_HEIGHT * Scale) =>
        lastOp.ret =
            CalculateArmAngles(<<lastOp.position[1], BASE_HEIGHT * Scale,
                                 lastOp.position[3]>>)

C28_Witness ==
    /\ lastOp.op = "solve"
    /\ lastOp.position = Pos(144, -132, 0)
    /\ lastOp.ret.rotation = Degrees90
    /\ lastOp.ret.lower_arm = <<3, -4>>
    /\ lastOp.ret.upper_arm = <<-7, 24>>

\* C29: the list a dispatch thread works through is the list its
\* execute_gcode call was given: the queue is not replaced between the
\* call and the thread's reading it, and the list of a thread inside its
\* command loop does not change.
C29_ProgramImmutable ==
    [][\A t \in Threads :
           /\ (thr[t].pc = "start" /\ thr'[t].pc = "start")
                  => gcode_queue' = gcode_queue
           /\ (thr[t].pc = "start" /\ thr'[t].pc # "start")
                  => thr'[t].prog = gcode_queue
           /\ (Dispatching(t) /\ Dispatching(t)')
                  => thr'[t].prog = thr[t].prog]_vars

\* C30: a dispatched M3 leaves effector_active true and a dispatched M5
\* leaves it false, whatever it was, and neither changes current_position,
\* target_position, animation_progress or coordinate_mode; a dispatched
\* G0, G1, G24, G90 or G91 leaves effector_active as it was.
C30_EffectorCommands ==
    [][\A t \in Threads :
           DispatchBy(t) =>
               LET code == CodeOf(thr[t].prog[thr[t].i])
               IN /\ code = L_M3 =>
                         /\ effector_active' = TRUE
                         /\ UNCHANGED <<current_position, target_position,
                                        animation_progress, coordinate_mode>>
                  /\ code = L_M5 =>
                         /\ effector_active' = FALSE
                         /\ UNCHANGED <<current_position, target_position,
                                        animation_progress, coordinate_mode>>
                  /\ code \in {L_G0, L_G1, L_G24, L_G90, L_G91} =>
                         effector_active' = effector_active]_vars

\* both threads have dispatched M3 and nothing else: the second M3 found
\* the effector switched on
C30_Witness ==
    /\ lastOp = "dispatch"
    /\ \A t \in Threads : thr[t].log = <<L_M3>>
    /\ effector_active

\* the params of the interpreter's parsing under the keys from_line uses
KeyedParams(params) ==
    [k \in {<<c>> : c \in DOMAIN params} |-> params[k[1]]]

\* C31: the interpreter's own parsing of a line agrees with from_line: both
\* give nothing, or both give the same code and the same arguments; and a
\* line with a ";" is parsed by the interpreter like its part before the
\* ";".
C31_ParsersAgree ==
    lastOp.op = "from_line" =>
        LET e == ExecParse(Strip(lastOp.line))
        IN /\ lastOp.ret.none <=> e.skip
           /\ ~lastOp.ret.none =>
                  /\ lastOp.ret.code = e.main
                  /\ lastOp.ret.args = KeyedParams(e.params)
           /\ e = ExecParse(Strip(BeforeComment(lastOp.line)))

\* C32: a cancelled program stays cancelled: a thread that was alive when
\* stop_gcode_execution was called dispatches no command afterwards.
C32_CancelledStaysCancelled ==
    [][\A t \in cancelled : ~DispatchBy(t)]_vars

\* C33: is_executing_gcode is false whenever no dispatch thread is alive,
\* and the end of one dispatch thread does not lower it while the thread of
\* another accepted program is still alive.
C33_FlagReflectsExecutor ==
    /\ []((\A t \in Threads : ~Alive(t)) => ~is_executing_gcode)
    /\ [][\A t \in Threads :
              (/\ thr[t].pc = "exit"
               /\ thr'[t].pc = "done"
               /\ \E u \in Threads \ {t} : Alive(u)
               /\ is_executing_gcode)
              => is_executing_gcode']_vars

\* C34: whenever a dispatch thread is about to dispatch a command,
\* current_position equals target_position.
C34_BookkeepingMatchesTarget ==
    \A t \in Threads :
        thr[t].pc = "dispatch" => current_position = target_position

\* C35: when update_position(animate=True) interleaves with a frame of the
\* viewer loop, the frame does not bring robot_position to the new target,
\* and after update_position has returned the frame does not store a
\* progress it read before the reset: animation_progress stays 0 until a
\* later read.
C35_AnimatedMoveNeverSnaps ==
    /\ (lastOp.op = "race" /\ lastOp.hit /\ lastOp.call # "called")
           => robot_position # lastOp.p
    /\ (lastOp.op = "race" /\ lastOp.call = "returned" /\ lastOp.stale
            /\ lastOp.tick = "lerp")
           => animation_progress = 0

\* C36: update_position called while motors_enabled is false leaves
\* target_position, robot_position and animation_progress as they were,
\* whatever animate is.
C36_UpdateRejectedMotorsOff ==
    [][(lastOp' = "update_position" /\ ~motors_enabled)
           => UNCHANGED <<target_position, robot_position,
                          animation_progress>>]_vars

\* update_position has been called with the motors off in the middle of an
\* animation, and the animation is where it was
C36_Witness ==
    /\ lastOp = "update_position"
    /\ ~motors_enabled
    /\ animation_progress > 0
    /\ animation_progress < ProgressOne
    /\ robot_position # target_position

\* C37: in every state where the viewer is running, the viewer's
\* motors_enabled equals the GUI's.
C37_ViewerMirrorsGuiMotors ==
    (lastOp.op \in {"init", "enableMotors", "disableMotors", "setEffector",
                    "connect", "disconnect", "getStatus", "toggle_3d_viewer"}
        /\ running)
    => motors_enabled = lastOp.gui_motors

\* C38: a robot operation raises the no-session error and sends no RPC
\* exactly when there is no active session: before any successful login or
\* after logout.  After a successful login, whatever user name and
\* password the server accepted, and before logout, it does not raise.
C38_SessionGating ==
    lastOp.op \in {o.name : o \in RobotOperations} =>
        ((lastOp.raised /\ lastOp.sent = "none") <=> ~lastOp.active)

\* the part of C38 for sessions opened with a non-empty user name and a
\* non-empty password, and for no session at all
C38_NonEmptyCredentials ==
    (/\ lastOp.op \in {o.name : o \in RobotOperations}
     /\ lastOp.active => ~Falsy(lastOp.username) /\ ~Falsy(lastOp.password))
    => ((lastOp.raised /\ lastOp.sent = "none") <=> ~lastOp.active)

IsPrefix(s, t) == Len(s) <= Len(t) /\ SubSeq(t, 1, Len(s)) = s

\* what aprender_fin sends is the G-code, in issue order, of the
\* recordable commands completed since the matching aprender_inicio
SentIsTrace ==
    (lastOp.op = "aprender_fin" /\ ~lastOp.sent.none)
        => lastOp.sent.commands = lastOp.issued

\* nothing is recorded while learning_mode_active is false
NothingRecordedWhenOff ==
    (~lastOp.learning_mode_active /\ lastOp'.op # "aprender_inicio")
        => lastOp'.learned_gcode_commands = lastOp.learned_gcode_commands

\* a recording in progress is only extended, until it is sent
NeverDiscarded ==
    (lastOp.learning_mode_active /\ lastOp.learned_gcode_commands # <<>>)
        => \/ IsPrefix(lastOp.learned_gcode_commands,
                       lastOp'.learned_gcode_commands)
           \/ /\ ~lastOp'.sent.none
              /\ lastOp'.sent.commands = lastOp.learned_gcode_commands

\* C39: learning mode records a faithful trace: what aprender_fin sends is
\* the trace since the matching aprender_inicio, nothing is recorded while
\* learning mode is off, and a recording in progress is never discarded
\* without being sent.
C39_FaithfulTrace ==
    /\ []SentIsTrace
    /\ [][NothingRecordedWhenOff /\ NeverDiscarded]_vars

\* the parts of C39 other than the discarding of a recording in progress
C39_TraceWithoutDiscard ==
    /\ []SentIsTrace
    /\ [][NothingRecordedWhenOff]_vars

====
